---------------------------- MODULE Spec2Model ----------------------------
(***************************************************************************)
(* Model of the training/evaluation pipeline of the four audio model       *)
(* families in src/Models: AudioAST (AST.py), AudioLSTM (LSTM.py),         *)
(* AudioDense (MLP.py) and ResidualModel (ResidualModel.py).               *)
(*                                                                         *)
(* The module holds one group of variables per component and one           *)
(* specification per component:                                            *)
(*   SpecWindows   the windows() generator                                 *)
(*   SpecBalance   balance_classes(), the class balancer of train()        *)
(*   SpecPatches   AudioAST.split_spectrogram_into_patches()               *)
(*   SpecLoader    the dataset loaders load_dataset() / load_data()        *)
(*   SpecConfig    the hyperparameters over a sequence of train() calls    *)
(*   SpecTrain     one run of train() after its configuration block        *)
(*   SpecSegments  the window loop of the raw-segment loaders on one file  *)
(*   SpecReport    the metrics of the folds and their aggregation          *)
(*   SpecConfusion the confusion matrices of the folds and their mean      *)
(*   SpecResidual  the feature array of ResidualModel.load_data            *)
(*   SpecShapes    the tensor shape and the model input shape of a run     *)
(* A specification leaves the variables of the other components at their   *)
(* idle values.                                                            *)
(***************************************************************************)
EXTENDS Integers, Sequences, FiniteSets, TLC

(***************************************************************************)
(* Bounds of the model.                                                    *)
(***************************************************************************)
\* largest waveform length len(data) given to windows()
MaxLen == 10
\* largest window_size given to windows()
MaxWindow == 4
\* largest overlap given to windows()
MaxOverlap == 3
\* largest number of samples given to balance_classes()
MaxSamples == 4
\* the labels of the model are 0 .. MaxLabel
MaxLabel == 2
\* largest number of cells H * W of a spectrogram given to the patch splitter
MaxCells == 9
\* largest patch height and patch width
MaxPatch == 2
\* largest number of audio files in the dataset directory
MaxFiles == 2
\* largest waveform length of an audio file given to a loader
MaxSignal == 4
\* largest number of train() calls made on one instance
MaxCalls == 2
\* largest number_splits of a train() run
MaxSplits == 3
\* the values a cell of a spectrogram holds in the model: the value of the
\* padding and one other value
CellValues == {0, 1}

(***************************************************************************)
(* Arithmetic helpers.                                                     *)
(***************************************************************************)
Max(a, b) == IF a >= b THEN a ELSE b

Min(a, b) == IF a <= b THEN a ELSE b

\* ceil(a / b) for a >= 0, b >= 1
CeilDiv(a, b) == (a + b - 1) \div b

\* the sum of the values of a function
RECURSIVE CountSum(_)
CountSum(f) ==
    IF DOMAIN f = {} THEN 0
    ELSE LET c == CHOOSE x \in DOMAIN f : TRUE
         IN  f[c] + CountSum([d \in DOMAIN f \ {c} |-> f[d]])

(***************************************************************************)
(* The class of the instance that the methods are called on.               *)
(***************************************************************************)
VARIABLES
    family          \* "AST" (AudioAST), "LSTM" (AudioLSTM), "MLP" (AudioDense)
                    \* or "Residual" (ResidualModel)

(***************************************************************************)
(* State of the windows() generator: its arguments, its local variable     *)
(* start, its position, and the pairs it has yielded so far.               *)
(***************************************************************************)
VARIABLES
    data_len,       \* len(data)
    window_size,    \* argument window_size
    overlap,        \* argument overlap
    start,          \* local variable start
    wpc,            \* position: "test" (the while condition), "yield"
                    \* (suspended at the yield), "done" (returned)
    yielded,        \* the (start, end) pairs yielded so far, oldest first
    recalled,       \* whether this is a second call on the same arguments
    earlier         \* the pairs that the first call yielded, in a second call

wvars == <<data_len, window_size, overlap, start, wpc, yielded, recalled, earlier>>

(***************************************************************************)
(* State of one call of balance_classes(features, labels): its arguments,  *)
(* its result, its position, and what resample(..., random_state=0) has    *)
(* drawn so far.  A sample is named by its row number in the loaded array. *)
(***************************************************************************)
VARIABLES
    b_features,         \* argument features: a sequence of samples
    b_labels,           \* argument labels: the label of each sample
    balanced_features,  \* result: numpy.vstack(balanced_features)
    balanced_labels,    \* result: numpy.hstack(balanced_labels)
    bpc,                \* "idle", "call" (called, not yet run), "done",
                        \* "raised", "again" (called a second time)
    seeded,             \* <<n, k>> |-> the k indices that a generator seeded
                        \* with 0 draws from 1..n, for the draws made so far
    again_features,     \* result of a second call on the same arguments
    again_labels

bvars == <<b_features, b_labels, balanced_features, balanced_labels, bpc, seeded,
           again_features, again_labels>>

(***************************************************************************)
(* State of one call of split_spectrogram_into_patches(spectrogram).  A    *)
(* 2-D array is a record [h, w, cells]: its shape and cells[i][j] for      *)
(* i in 1..h, j in 1..w (numpy's row i - 1, column j - 1).                 *)
(***************************************************************************)
VARIABLES
    patch_size,          \* self.patch_size: <<height, width>>
    spectrogram,         \* argument spectrogram
    padded_spectrogram,  \* local padded_spectrogram
    list_patches,        \* the returned array of patches
    ppc                  \* "idle", "call", "done"

pvars == <<patch_size, spectrogram, padded_spectrogram, list_patches, ppc>>

(***************************************************************************)
(* State of one call of a dataset loader (AudioAST.load_dataset, and       *)
(* load_data of AudioLSTM, AudioDense and ResidualModel): the instance     *)
(* attributes it reads, the directory, and its outcome.  An audio file is  *)
(* a record [fault, signal_len, label]: whether librosa.load raises on it  *)
(* ("decode"), or the feature extraction of its first full window raises   *)
(* ("extract"), or neither ("none"); the length of its waveform; and the   *)
(* label its directory names.  A feature tensor is a record                *)
(* [file, start, read_from]: the file and the window start it is emitted   *)
(* for, and the sample offset its content is read from.                    *)
(***************************************************************************)
VARIABLES
    hop_length,           \* self.hop_length
    window_size_factor,   \* self.window_size_factor
    l_overlap,            \* self.overlap
    dir_exists,           \* os.path.exists(sub_directories)
    files,                \* the audio files, in the order they are visited
    load_outcome,         \* "idle", "call", "returned" (two arrays), "none"
                          \* ((None, None)), "raised", "hung" (never returns)
    array_features,       \* the returned feature array
    array_labels,         \* the returned label array
    errors_logged         \* the number of logging.error calls

lvars == <<hop_length, window_size_factor, l_overlap, dir_exists, files,
           load_outcome, array_features, array_labels, errors_logged>>

(***************************************************************************)
(* The hyperparameters of one instance over the train() calls made on it.  *)
(* A value is a number; None (and every other falsy value) is 0, and a     *)
(* loss function is named by a number.                                     *)
(***************************************************************************)
VARIABLES
    \* the values given to __init__, by attribute
    constructor,
    \* the train() calls so far, oldest first: records [args, arguments] of
    \* the keyword arguments and of the options object of the call
    calls,
    \* the instance attributes that train() rebinds
    attrs,
    \* the values that the loader, the fold loop and the report of the
    \* latest train() read
    used

cvars == <<constructor, calls, attrs, used>>

(***************************************************************************)
(* State of one run of train() after its configuration block.  A sample is *)
(* named by its row number in the loaded array; a row of the pool is named *)
(* by its position 1 .. n (numpy's index 0 .. n - 1); folds are numbered   *)
(* from 0 as in sklearn.                                                   *)
(***************************************************************************)
VARIABLES
    \* self.number_splits of the run
    number_splits,
    \* what the loader returned: [kind, labels], kind "arrays", "none" (the
    \* pair (None, None)) or "raised"
    loaded,
    \* the held-out part of train_test_split
    features_test,
    labels_test,
    \* the train/validation pool: train_test_split's part, then rebound to
    \* its balanced version
    features_train_val,
    labels_train_val,
    \* the fold of each row of the pool, once StratifiedKFold.split has
    \* drawn it
    test_folds,
    \* one record per iteration of the fold loop entered: its index arrays,
    \* its balanced training subset and its validation subset
    folds,
    \* the folds whose metrics were appended to metrics_list
    metrics_list,
    \* the fold whose fit history_model holds, None before the first fit
    history_model,
    \* the phases the run went through, the current one last
    phases,
    \* the calls the run made, in order
    trace,
    \* what resample(..., random_state=0) has drawn so far in this run
    t_seeded,
    \* the arguments [features, labels] of the balance_classes calls of the
    \* run, in order
    balance_calls,
    \* self.neural_network_model: the fold whose build_model call built it,
    \* None before the first build
    neural_network_model,
    \* one record per iteration of the fold loop: the model that build_model
    \* left, the one that was fitted and the one that predicted (None where
    \* the call was not reached)
    model_uses,
    \* the arrays appended to probabilities_list and real_labels_list
    probabilities_list,
    real_labels_list,
    \* the 4-tuple that train() returned, <<>> before it returns
    returned

tvars == <<number_splits, loaded, features_test, labels_test,
           features_train_val, labels_train_val, test_folds, folds,
           metrics_list, history_model, phases, trace, t_seeded,
           balance_calls, neural_network_model, model_uses,
           probabilities_list, real_labels_list, returned>>

(***************************************************************************)
(* State of the window loop of AudioLSTM.load_data and AudioDense.load_data*)
(* on one decoded file.  A sample is an integer amplitude; a normalized    *)
(* value is a fraction [num, den]; a tensor is the sequence of its rows.   *)
(***************************************************************************)
VARIABLES
    \* the waveform librosa.load returned, which windows() iterates
    waveform,
    \* the label of the file
    seg_label,
    \* self.hop_length, self.window_size_factor, self.overlap
    seg_hop_length,
    seg_factor,
    seg_overlap,
    \* the array that the name `signal` is bound to, and its number of axes
    signal,
    signal_dim,
    \* the local variable start of windows()
    seg_start,
    \* the lists the loop appends to
    list_spectrogram,
    list_labels,
    \* the window start each appended tensor was emitted for
    list_starts,
    \* "loop" while the for loop runs, "done" after it
    spc

svars == <<waveform, seg_label, seg_hop_length, seg_factor, seg_overlap,
           signal, signal_dim, seg_start, list_spectrogram, list_labels,
           list_starts, spc>>

(***************************************************************************)
(* State of the metrics of one train() run: what calculate_metrics gave    *)
(* for each fold, and the mean_metrics report built after the loop.  A     *)
(* metric is a whole number of the unit 1 / MetricOne; a mean is a         *)
(* fraction [num, den]; a standard deviation is held by its square         *)
(* [sq_num, sq_den].                                                       *)
(***************************************************************************)
VARIABLES
    \* self.number_splits of the run: the folds of the loop
    report_splits,
    \* metrics_list: one record of the four metrics per completed fold
    fold_metrics,
    \* mean_metrics, by key, once built
    mean_metrics,
    \* "folds" during the loop, "returned" after the report
    rpc

rvars == <<report_splits, fold_metrics, mean_metrics, rpc>>

(***************************************************************************)
(* State of the confusion matrices of one train() run: the matrix that     *)
(* calculate_metrics gave for each fold, and the mean matrix of the        *)
(* report.  A matrix is a tuple of rows of whole numbers.                  *)
(***************************************************************************)
VARIABLES
    \* self.number_splits of the run
    confusion_splits,
    \* confusion_matriz_list: one matrix per completed fold
    confusion_matriz_list,
    \* mean_confusion_matrix, once built
    mean_confusion_matrix,
    \* "folds" during the loop, "returned" after the report
    xpc

xvars == <<confusion_splits, confusion_matriz_list, mean_confusion_matrix, xpc>>

(***************************************************************************)
(* State of the end of ResidualModel.load_data: the rescaled spectrograms  *)
(* that the window loop collected, and the feature array built from them.  *)
(* A spectrogram is a record [h, w, cells] as above; the feature array is  *)
(* a record [shape, cells] with cells[t][i][j][1] its element              *)
(* (t - 1, i - 1, j - 1, 0).                                               *)
(***************************************************************************)
VARIABLES
    \* self.number_filters_spectrogram, self.window_size_factor and
    \* self.hop_length of the call
    res_filters,
    res_factor,
    res_hop_length,
    \* list_spectrogram after the file loop
    res_list_spectrogram,
    \* the returned feature array
    new_array,
    \* "arrays" before the arrays are built, "returned" after
    zpc

zvars == <<res_filters, res_factor, res_hop_length, res_list_spectrogram,
           new_array, zpc>>

(***************************************************************************)
(* The shapes of one train() run of AudioLSTM, AudioDense or ResidualModel:*)
(* the shape attributes of the instance, the options of the call, the      *)
(* shape of one feature tensor that the loader returned and the input      *)
(* shape of the model built in each fold.  A shape is a tuple.             *)
(***************************************************************************)
VARIABLES
    \* hop_length, window_size_factor, number_filters_spectrogram and
    \* input_dimension (input_shape in ResidualModel) of the instance
    shape_attrs,
    \* the options object of the call
    shape_options,
    \* the shape of one tensor of the loaded feature array
    feature_shape,
    \* the shape given to Input() by build_model, one entry per fold
    built_shapes,
    \* "constructed", "configured", "loaded"
    hpc

hvars == <<shape_attrs, shape_options, feature_shape, built_shapes, hpc>>

vars == <<family, wvars, bvars, pvars, lvars, cvars, tvars, svars, rvars, xvars,
          zvars, hvars>>

(***************************************************************************)
(* The idle values of each component, and what each component leaves alone.*)
(***************************************************************************)
\* No call of windows() is in progress
WindowsIdle ==
    /\ data_len = 0
    /\ window_size = 1
    /\ overlap = 1
    /\ start = 0
    /\ wpc = "idle"
    /\ yielded = <<>>
    /\ recalled = FALSE
    /\ earlier = <<>>

\* No call of balance_classes() is in progress
BalanceIdle ==
    /\ b_features = <<>>
    /\ b_labels = <<>>
    /\ balanced_features = <<>>
    /\ balanced_labels = <<>>
    /\ bpc = "idle"
    /\ seeded = <<>>
    /\ again_features = <<>>
    /\ again_labels = <<>>

\* the array of shape (0, 0)
EmptyArray == [h |-> 0, w |-> 0, cells |-> <<>>]

\* No call of split_spectrogram_into_patches() is in progress
PatchesIdle ==
    /\ patch_size = <<1, 1>>
    /\ spectrogram = EmptyArray
    /\ padded_spectrogram = EmptyArray
    /\ list_patches = <<>>
    /\ ppc = "idle"

\* No call of a dataset loader is in progress
LoaderIdle ==
    /\ hop_length = 1
    /\ window_size_factor = 2
    /\ l_overlap = 1
    /\ dir_exists = FALSE
    /\ files = <<>>
    /\ load_outcome = "idle"
    /\ array_features = <<>>
    /\ array_labels = <<>>
    /\ errors_logged = 0

\* the rebound attributes, and the DEFAULT_* values of __init__
HyperParameters ==
    {"number_epochs", "number_splits", "size_batch", "loss_function",
     "sample_rate", "overlap", "number_classes"}

DefaultValues ==
    [number_epochs |-> 10, number_splits |-> 5, size_batch |-> 32,
     loss_function |-> 1, sample_rate |-> 8000, overlap |-> 2,
     number_classes |-> 4]

ConfigIdle ==
    /\ constructor = [a \in HyperParameters |-> DefaultValues[a]]
    /\ calls = <<>>
    /\ attrs = constructor
    /\ used = constructor

TrainIdle ==
    /\ number_splits = DefaultValues.number_splits
    /\ loaded = [kind |-> "idle", labels |-> <<>>]
    /\ features_test = <<>>
    /\ labels_test = <<>>
    /\ features_train_val = <<>>
    /\ labels_train_val = <<>>
    /\ test_folds = <<>>
    /\ folds = <<>>
    /\ metrics_list = <<>>
    /\ history_model = 0
    /\ phases = <<>>
    /\ trace = <<>>
    /\ t_seeded = <<>>
    /\ balance_calls = <<>>
    /\ neural_network_model = 0
    /\ model_uses = <<>>
    /\ probabilities_list = <<>>
    /\ real_labels_list = <<>>
    /\ returned = <<>>

SegmentsIdle ==
    /\ waveform = <<>>
    /\ seg_label = 0
    /\ seg_hop_length = 1
    /\ seg_factor = 1
    /\ seg_overlap = 1
    /\ signal = <<>>
    /\ signal_dim = 1
    /\ seg_start = 0
    /\ list_spectrogram = <<>>
    /\ list_labels = <<>>
    /\ list_starts = <<>>
    /\ spc = "idle"

ReportIdle ==
    /\ report_splits = DefaultValues.number_splits
    /\ fold_metrics = <<>>
    /\ mean_metrics = <<>>
    /\ rpc = "idle"

ConfusionIdle ==
    /\ confusion_splits = DefaultValues.number_splits
    /\ confusion_matriz_list = <<>>
    /\ mean_confusion_matrix = <<>>
    /\ xpc = "idle"

ResidualIdle ==
    /\ res_filters = 0
    /\ res_factor = 0
    /\ res_hop_length = 0
    /\ res_list_spectrogram = <<>>
    /\ new_array = <<>>
    /\ zpc = "idle"

ShapesIdle ==
    /\ shape_attrs = <<>>
    /\ shape_options = <<>>
    /\ feature_shape = <<>>
    /\ built_shapes = <<>>
    /\ hpc = "idle"

\* every component but component c is idle
IdleBut(c) ==
    /\ IF c = "windows" THEN TRUE ELSE WindowsIdle
    /\ IF c = "balance" THEN TRUE ELSE BalanceIdle
    /\ IF c = "patches" THEN TRUE ELSE PatchesIdle
    /\ IF c = "loader" THEN TRUE ELSE LoaderIdle
    /\ IF c = "config" THEN TRUE ELSE ConfigIdle
    /\ IF c = "train" THEN TRUE ELSE TrainIdle
    /\ IF c = "segments" THEN TRUE ELSE SegmentsIdle
    /\ IF c = "report" THEN TRUE ELSE ReportIdle
    /\ IF c = "confusion" THEN TRUE ELSE ConfusionIdle
    /\ IF c = "residual" THEN TRUE ELSE ResidualIdle
    /\ IF c = "shapes" THEN TRUE ELSE ShapesIdle

\* a step of component c leaves the other components and the class of the
\* instance alone
Frame(c) ==
    /\ UNCHANGED family
    /\ IF c = "windows" THEN TRUE ELSE UNCHANGED wvars
    /\ IF c = "balance" THEN TRUE ELSE UNCHANGED bvars
    /\ IF c = "patches" THEN TRUE ELSE UNCHANGED pvars
    /\ IF c = "loader" THEN TRUE ELSE UNCHANGED lvars
    /\ IF c = "config" THEN TRUE ELSE UNCHANGED cvars
    /\ IF c = "train" THEN TRUE ELSE UNCHANGED tvars
    /\ IF c = "segments" THEN TRUE ELSE UNCHANGED svars
    /\ IF c = "report" THEN TRUE ELSE UNCHANGED rvars
    /\ IF c = "confusion" THEN TRUE ELSE UNCHANGED xvars
    /\ IF c = "residual" THEN TRUE ELSE UNCHANGED zvars
    /\ IF c = "shapes" THEN TRUE ELSE UNCHANGED hvars

(***************************************************************************)
(* windows(data, window_size, overlap)                                     *)
(***************************************************************************)
\* The model keeps at most this many yielded pairs; a generator with a
\* positive step yields at most len(data) of them.
YieldCap == MaxLen + 2

\* start += (window_size // overlap): the step between two windows
WindowStepNoOverlap(ws, ov) == ws

WindowStep(ws, ov) == ws \div ov

FirstStartKept(previous) == previous

\* start = 0: the first line of every call, whatever an earlier call left
FirstStart(previous) == 0

\* A new call of windows(data, window_size, overlap): start = 0
WindowsInit ==
    /\ data_len \in 0..MaxLen
    /\ window_size \in 1..MaxWindow
    /\ overlap \in 1..MaxOverlap
    /\ start = FirstStart(0)
    /\ wpc = "test"
    /\ yielded = <<>>
    /\ recalled = FALSE
    /\ earlier = <<>>

\* windows() is called again with the same arguments once the first
\* generator has returned: a new generator, with its own start
WindowsCall ==
    /\ wpc = "done"
    /\ ~recalled
    /\ recalled' = TRUE
    /\ earlier' = yielded
    /\ start' = FirstStart(start)
    /\ wpc' = "test"
    /\ yielded' = <<>>
    /\ UNCHANGED <<data_len, window_size, overlap>>
    /\ Frame("windows")

\* while start < len(data): yield start, start + window_size
WindowsTest ==
    /\ wpc = "test"
    /\ IF start < data_len
          THEN /\ wpc' = "yield"
               /\ yielded' = IF Len(yielded) < YieldCap
                                THEN Append(yielded, <<start, start + window_size>>)
                                ELSE yielded
          ELSE /\ wpc' = "done"
               /\ yielded' = yielded
    /\ UNCHANGED <<data_len, window_size, overlap, start, recalled, earlier>>
    /\ Frame("windows")

\* the consumer asks for the next pair: start += (window_size // overlap)
WindowsResume ==
    /\ wpc = "yield"
    /\ start' = start + WindowStep(window_size, overlap)
    /\ wpc' = "test"
    /\ UNCHANGED <<data_len, window_size, overlap, yielded, recalled, earlier>>
    /\ Frame("windows")

NextWindows == WindowsTest \/ WindowsResume \/ WindowsCall

InitWindows == family = "AST" /\ WindowsInit /\ IdleBut("windows")

SpecWindows == InitWindows /\ [][NextWindows]_vars

\* The consumer's for loop keeps asking for the next pair, and the generator
\* keeps running its loop: no step that can be taken is postponed forever.
FairSpecWindows == SpecWindows /\ WF_vars(NextWindows)

(***************************************************************************)
(* Claims about windows().                                                 *)
(***************************************************************************)
\* C2 (as stated): once windows() has returned, with window_size >= 1 and
\* overlap >= 1, it has yielded exactly
\* ceil(max(0, L - window_size) / (window_size // overlap)) + 1 pairs.
\* (Stated for a step >= 1, where the quotient is defined.)
C2_CountAsClaimed ==
    (wpc = "done" /\ window_size \div overlap >= 1) =>
        Len(yielded) =
            CeilDiv(Max(0, data_len - window_size), window_size \div overlap) + 1

\* C2 (amended): once windows() has returned, with a step
\* window_size // overlap >= 1, it has yielded exactly ceil(L / step) pairs,
\* one for each start 0, step, 2*step, ... below L.
C2_CountIsCeilLenOverStep ==
    (wpc = "done" /\ window_size \div overlap >= 1) =>
        /\ Len(yielded) = CeilDiv(data_len, window_size \div overlap)
        /\ \A i \in 1..Len(yielded) :
              yielded[i] = <<(i - 1) * (window_size \div overlap),
                             (i - 1) * (window_size \div overlap) + window_size>>

\* C2 witness: the documented example L = 10, window_size = 4, overlap = 2
\* has returned after yielding the five starts 0, 2, 4, 6, 8.
C2_Witness ==
    /\ wpc = "done"
    /\ data_len = 10 /\ window_size = 4 /\ overlap = 2
    /\ Len(yielded) = 5

\* the starts of the pairs yielded so far
YieldedStarts == {yielded[i][1] : i \in 1..Len(yielded)}

\* C19: windows(data, window_size, overlap) with step = window_size //
\* overlap >= 1 yields, in increasing order of start and with no side effect
\* on data, exactly the pairs (s, s + window_size) for s = 0, step, 2*step,
\* ... with s < len(data); a short trailing window is still yielded, and a
\* new call restarts from s = 0.
C19_YieldsEveryStartBelowLength ==
    window_size \div overlap >= 1 =>
        /\ \A i \in 1..Len(yielded) :
              /\ yielded[i][1] < data_len
              /\ yielded[i][1] % (window_size \div overlap) = 0
              /\ yielded[i][2] = yielded[i][1] + window_size
        /\ \A i, j \in 1..Len(yielded) : i < j => yielded[i][1] < yielded[j][1]
        /\ Len(yielded) > 0 => yielded[1][1] = 0
        /\ wpc = "done" =>
              YieldedStarts = {s \in 0..(data_len - 1) :
                                 s % (window_size \div overlap) = 0}
        /\ (recalled /\ wpc = "done") => yielded = earlier

\* C19 witness: a second call on L = 10, window_size = 4, overlap = 2 has
\* returned after yielding the starts 0, 2, 4, 6, 8 again, the last window
\* (8, 12) running past the data.
C19_Witness ==
    /\ recalled /\ wpc = "done"
    /\ data_len = 10 /\ window_size = 4 /\ overlap = 2
    /\ yielded = <<<<0, 4>>, <<2, 6>>, <<4, 8>>, <<6, 10>>, <<8, 12>>>>
    /\ earlier = yielded

\* C3: for every waveform, window_size >= 1 and overlap >= 1, the generator
\* eventually stops yielding (it returns).
C3_WindowsTerminates == <>(wpc = "done")

(***************************************************************************)
(* balance_classes(features, labels), defined inside train()               *)
(***************************************************************************)
\* numpy.unique(labels): the distinct labels
UniqueClasses(labels) == {labels[i] : i \in 1..Len(labels)}

\* the rows i with labels[i] = c, in increasing order: the mask labels == c
RECURSIVE MaskRows(_, _, _)
MaskRows(labels, c, i) ==
    IF i > Len(labels) THEN <<>>
    ELSE IF labels[i] = c THEN <<i>> \o MaskRows(labels, c, i + 1)
    ELSE MaskRows(labels, c, i + 1)

\* sum(labels == c)
ClassCount(labels, c) == Len(MaskRows(labels, c, 1))

\* features[labels == c]
FeaturesClass(features, labels, c) ==
    LET rows == MaskRows(labels, c, 1)
    IN  [j \in 1..Len(rows) |-> features[rows[j]]]

\* max_samples = max([sum(labels == c) for c in unique_classes])
MaxSamplesAsMin(labels) ==
    CHOOSE m \in 0..Len(labels) :
        /\ \E c \in UniqueClasses(labels) : ClassCount(labels, c) = m
        /\ \A c \in UniqueClasses(labels) : ClassCount(labels, c) >= m

MaxSamplesOf(labels) ==
    CHOOSE m \in 0..Len(labels) :
        /\ \E c \in UniqueClasses(labels) : ClassCount(labels, c) = m
        /\ \A c \in UniqueClasses(labels) : ClassCount(labels, c) <= m

\* the class sizes n for which one call draws indices
ClassSizes(labels) == {ClassCount(labels, c) : c \in UniqueClasses(labels)}

\* resample(..., replace=True, n_samples=k, random_state=0) draws k indices
\* from a class of n rows with a generator seeded with 0: the same indices
\* for the same n and k, whatever the class.  The indices themselves are
\* not known to the model: the first draw for <<n, k>> may be any k indices
\* of 1..n, and a later one repeats it.  SeededDraws is the set of the
\* functions n |-> indices that agree with the draws made so far (memo).
RECURSIVE SeededDraws(_, _, _)
SeededDraws(sizes, k, memo) ==
    IF sizes = {} THEN {[n \in {} |-> <<>>]}
    ELSE LET n == CHOOSE x \in sizes : TRUE
             mine == IF <<n, k>> \in DOMAIN memo
                        THEN {memo[<<n, k>>]}
                        ELSE [1..k -> 1..n]
         IN  {[m \in sizes |-> IF m = n THEN v ELSE r[m]] :
                 v \in mine, r \in SeededDraws(sizes \ {n}, k, memo)}

RememberNothing(memo, draws, k) == memo

\* the draws made so far, and those of this call
Remember(memo, draws, k) ==
    [p \in DOMAIN memo \cup {<<n, k>> : n \in DOMAIN draws} |->
        IF p \in DOMAIN memo THEN memo[p] ELSE draws[p[1]]]

ResampledIndices(arr, indices) == indices

\* the rows of arr picked by the drawn indices
Resampled(arr, indices) == [j \in 1..Len(indices) |-> arr[indices[j]]]

\* for c in unique_classes (ascending, from class c on): the resampled
\* rows of each class, stacked in that order
RECURSIVE StackFrom(_, _, _, _)
StackFrom(features, labels, draws, c) ==
    IF c > MaxLabel THEN [features |-> <<>>, labels |-> <<>>]
    ELSE LET rest == StackFrom(features, labels, draws, c + 1)
         IN  IF c \notin UniqueClasses(labels) THEN rest
             ELSE LET indices == draws[ClassCount(labels, c)]
                      features_class == FeaturesClass(features, labels, c)
                      labels_class == FeaturesClass(labels, labels, c)
                  IN  [features |-> Resampled(features_class, indices) \o rest.features,
                       labels |-> Resampled(labels_class, indices) \o rest.labels]

\* balance_classes(features, labels) with the indices drawn
BalanceClasses(features, labels, draws) == StackFrom(features, labels, draws, 0)

\* a call balance_classes(features, labels) on arrays of the same length
BalanceInit ==
    /\ \E n \in 0..MaxSamples :
          /\ b_labels \in [1..n -> 0..MaxLabel]
          /\ b_features = [i \in 1..n |-> i]
    /\ balanced_features = <<>>
    /\ balanced_labels = <<>>
    /\ bpc = "call"
    /\ seeded = <<>>
    /\ again_features = <<>>
    /\ again_labels = <<>>

\* the body of balance_classes on a non-empty labels array
BalanceRun ==
    /\ bpc = "call"
    /\ b_labels # <<>>
    /\ \E draws \in SeededDraws(ClassSizes(b_labels), MaxSamplesOf(b_labels), seeded) :
          LET out == BalanceClasses(b_features, b_labels, draws)
          IN  /\ balanced_features' = out.features
              /\ balanced_labels' = out.labels
              /\ seeded' = Remember(seeded, draws, MaxSamplesOf(b_labels))
    /\ bpc' = "done"
    /\ UNCHANGED <<b_features, b_labels, again_features, again_labels>>
    /\ Frame("balance")

\* on empty arrays max([]) raises ValueError
BalanceRaise ==
    /\ bpc = "call"
    /\ b_labels = <<>>
    /\ bpc' = "raised"
    /\ UNCHANGED <<b_features, b_labels, balanced_features, balanced_labels, seeded,
                   again_features, again_labels>>
    /\ Frame("balance")

\* balance_classes is called again on the same arrays: every resample call
\* seeds a new generator with random_state=0
BalanceRepeat ==
    /\ bpc = "done"
    /\ \E draws \in SeededDraws(ClassSizes(b_labels), MaxSamplesOf(b_labels), seeded) :
          LET out == BalanceClasses(b_features, b_labels, draws)
          IN  /\ again_features' = out.features
              /\ again_labels' = out.labels
              /\ seeded' = Remember(seeded, draws, MaxSamplesOf(b_labels))
    /\ bpc' = "again"
    /\ UNCHANGED <<b_features, b_labels, balanced_features, balanced_labels>>
    /\ Frame("balance")

NextBalance == BalanceRun \/ BalanceRaise \/ BalanceRepeat

InitBalance == family = "AST" /\ BalanceInit /\ IdleBut("balance")

SpecBalance == InitBalance /\ [][NextBalance]_vars

(***************************************************************************)
(* Claims about balance_classes().                                         *)
(***************************************************************************)
\* the number of rows of labels that hold c
CountOf(labels, c) == Cardinality({i \in 1..Len(labels) : labels[i] = c})

\* C1: for every non-empty label distribution, the output of
\* balance_classes holds exactly max_count samples of each distinct input
\* label, max_count being the largest per-class count of the input, and
\* nothing else: its size is num_classes * max_count.
C1_BalancedCounts ==
    bpc = "done" =>
        LET classes == {b_labels[i] : i \in 1..Len(b_labels)}
        IN  \E max_count \in 1..Len(b_labels) :
               /\ \E c \in classes : CountOf(b_labels, c) = max_count
               /\ \A c \in classes : CountOf(b_labels, c) <= max_count
               /\ \A c \in classes : CountOf(balanced_labels, c) = max_count
               /\ Len(balanced_labels) = Cardinality(classes) * max_count
               /\ Len(balanced_features) = Len(balanced_labels)

\* C1 witness: the counts {0:1, 1:3} (the documented {0:3, 1:7} scaled
\* down) have been balanced to {0:3, 1:3}, size 6.
C1_Witness ==
    /\ bpc = "done"
    /\ CountOf(b_labels, 0) = 1 /\ CountOf(b_labels, 1) = 3
    /\ CountOf(balanced_labels, 0) = 3 /\ CountOf(balanced_labels, 1) = 3
    /\ Len(balanced_labels) = 6

\* C15: balance_classes is deterministic: two invocations on equal
\* (features, labels) inputs return equal outputs, the same samples in the
\* same order, because resampling uses the fixed seed 0 for every class.
C15_BalanceIsDeterministic ==
    bpc = "again" =>
        /\ again_features = balanced_features
        /\ again_labels = balanced_labels

\* C15 witness: both calls balanced the labels 0, 1, 1 to four rows, the
\* row of class 0 twice, and returned the same rows in the same order.
C15_Witness ==
    /\ bpc = "again"
    /\ b_labels = <<0, 1, 1>>
    /\ Len(balanced_features) = 4
    /\ balanced_features[1] = 1 /\ balanced_features[2] = 1
    /\ again_features = balanced_features

\* what C29 says of the result of a call that has returned
BalancedFromInput ==
    bpc \in {"done", "again"} =>
        /\ Len(balanced_features) = Len(balanced_labels)
        /\ \A j \in 1..Len(balanced_features) :
              \E i \in 1..Len(b_features) :
                  /\ balanced_features[j] = b_features[i]
                  /\ balanced_labels[j] = b_labels[i]
        /\ \A i \in 1..Len(b_labels) :
              \E j \in 1..Len(balanced_labels) : balanced_labels[j] = b_labels[i]
        /\ \A j, k \in 1..Len(balanced_labels) :
              j < k => balanced_labels[j] <= balanced_labels[k]

\* C29: balance_classes invents nothing and mutates nothing: every
\* (feature, label) pair in its output is a pair of its input with the same
\* label, every input class appears in the output, the output is grouped
\* by class in ascending label order, and the input arrays are unchanged
\* after the call.
C29_BalanceInventsAndMutatesNothing ==
    /\ []BalancedFromInput
    /\ [][b_features' = b_features /\ b_labels' = b_labels]_vars

\* C29 witness: the labels 1, 0, 1 were balanced to 0, 0, 1, 1 with sample
\* 2 twice and then samples 1 and 3, and the arguments are as they were.
C29_Witness ==
    /\ bpc = "done"
    /\ b_labels = <<1, 0, 1>>
    /\ b_features = <<1, 2, 3>>
    /\ balanced_labels = <<0, 0, 1, 1>>
    /\ balanced_features = <<2, 2, 1, 3>>

(***************************************************************************)
(* AudioAST.split_spectrogram_into_patches(spectrogram)                    *)
(***************************************************************************)
\* (patch - (dim % patch)) % patch: the rows (columns) of padding
PadAmountNoOuterModulo(dim, patch) == patch - (dim % patch)

PadAmount(dim, patch) == (patch - (dim % patch)) % patch

\* numpy.pad(array, ((0, pad_height), (0, pad_width)), mode='constant',
\* constant_values=0)
PadZeros(array, pad_height, pad_width) ==
    [h |-> array.h + pad_height,
     w |-> array.w + pad_width,
     cells |-> [i \in 1..(array.h + pad_height) |->
                  [j \in 1..(array.w + pad_width) |->
                      IF i <= array.h /\ j <= array.w
                         THEN array.cells[i][j]
                         ELSE 0]]]

SliceFromOrigin(array, r0, r1, c0, c1) ==
    [h |-> Max(0, Min(r1, array.h) - r0),
     w |-> Max(0, Min(c1, array.w) - c0),
     cells |-> [i \in 1..Max(0, Min(r1, array.h) - r0) |->
                  [j \in 1..Max(0, Min(c1, array.w) - c0) |-> array.cells[i][j]]]]

\* array[r0:r1, c0:c1] (numpy's indices, from 0, end excluded): a slice
\* stops at the array's edge
Slice(array, r0, r1, c0, c1) ==
    LET rows == Max(0, Min(r1, array.h) - r0)
        cols == Max(0, Min(c1, array.w) - c0)
    IN  [h |-> rows,
         w |-> cols,
         cells |-> [i \in 1..rows |-> [j \in 1..cols |-> array.cells[r0 + i][c0 + j]]]]

\* for i in range(num_patches_x): for j in range(num_patches_y): append the
\* patch of rows i*ph .. (i+1)*ph and columns j*pw .. (j+1)*pw
ListPatches(padded, ph, pw) ==
    LET num_patches_x == padded.h \div ph
        num_patches_y == padded.w \div pw
    IN  [k \in 1..(num_patches_x * num_patches_y) |->
            LET i == (k - 1) \div num_patches_y
                j == (k - 1) % num_patches_y
            IN  Slice(padded, i * ph, (i + 1) * ph, j * pw, (j + 1) * pw)]

\* a call on a spectrogram of shape (H, W), H, W >= 1, with a patch size
\* of at least (1, 1)
PatchesInit ==
    /\ patch_size \in (1..MaxPatch) \X (1..MaxPatch)
    /\ \E h \in 1..MaxCells, w \in 1..MaxCells :
          /\ h * w <= MaxCells
          /\ \E cells \in [1..h -> [1..w -> CellValues]] :
                spectrogram = [h |-> h, w |-> w, cells |-> cells]
    /\ padded_spectrogram = EmptyArray
    /\ list_patches = <<>>
    /\ ppc = "call"

\* the body of split_spectrogram_into_patches
SplitSpectrogramIntoPatches ==
    /\ ppc = "call"
    /\ LET pad_height == PadAmount(spectrogram.h, patch_size[1])
           pad_width == PadAmount(spectrogram.w, patch_size[2])
           padded == PadZeros(spectrogram, pad_height, pad_width)
       IN  /\ padded_spectrogram' = padded
           /\ list_patches' = ListPatches(padded, patch_size[1], patch_size[2])
    /\ ppc' = "done"
    /\ UNCHANGED <<patch_size, spectrogram>>
    /\ Frame("patches")

NextPatches == SplitSpectrogramIntoPatches

InitPatches == family = "AST" /\ PatchesInit /\ IdleBut("patches")

SpecPatches == InitPatches /\ [][NextPatches]_vars

(***************************************************************************)
(* Claims about split_spectrogram_into_patches().                          *)
(***************************************************************************)
\* C4: for every spectrogram of shape (H, W) and patch size (ph, pw) the
\* result holds exactly ceil(H/ph) * ceil(W/pw) patches, each of shape
\* (ph, pw); every cell of a patch that lies outside the original H x W
\* area is 0; and a dimension already divisible by the patch size is not
\* padded (the padded shape is (ceil(H/ph)*ph, ceil(W/pw)*pw)).
C4_PatchCountShapeAndZeroFill ==
    ppc = "done" =>
        LET H == spectrogram.h
            W == spectrogram.w
            ph == patch_size[1]
            pw == patch_size[2]
            across == (W + pw - 1) \div pw
        IN  /\ Len(list_patches) = ((H + ph - 1) \div ph) * across
            /\ padded_spectrogram.h = ((H + ph - 1) \div ph) * ph
            /\ padded_spectrogram.w = across * pw
            /\ (H % ph = 0 => padded_spectrogram.h = H)
            /\ (W % pw = 0 => padded_spectrogram.w = W)
            /\ \A k \in 1..Len(list_patches) :
                  /\ list_patches[k].h = ph
                  /\ list_patches[k].w = pw
                  /\ \A r \in 1..ph, c \in 1..pw :
                        (\/ ((k - 1) \div across) * ph + r > H
                         \/ ((k - 1) % across) * pw + c > W)
                            => list_patches[k].cells[r][c] = 0

\* C4 witness: a (3, 3) spectrogram without a zero cell and the patch size
\* (2, 2) (the documented (17, 31) with (16, 16), scaled down) has been
\* padded to (4, 4) and split into 4 patches.
C4_Witness ==
    /\ ppc = "done"
    /\ spectrogram.h = 3 /\ spectrogram.w = 3 /\ patch_size = <<2, 2>>
    /\ \A i \in 1..3, j \in 1..3 : spectrogram.cells[i][j] = 1
    /\ padded_spectrogram.h = 4 /\ padded_spectrogram.w = 4
    /\ Len(list_patches) = 4

\* C28: split_spectrogram_into_patches is lossless: for every spectrogram
\* of shape (H, W), placing the returned patches back in row-major order
\* (patch index i * ceil(W/pw) + j at rows i*ph.., columns j*pw..) and
\* cropping to H x W reproduces the input exactly.
C28_PatchesReassembleToInput ==
    ppc = "done" =>
        LET ph == patch_size[1]
            pw == patch_size[2]
            across == CeilDiv(spectrogram.w, pw)
        IN  \A r \in 0..(spectrogram.h - 1), c \in 0..(spectrogram.w - 1) :
               LET i == r \div ph
                   j == c \div pw
                   patch == list_patches[i * across + j + 1]
               IN  patch.cells[(r % ph) + 1][(c % pw) + 1]
                       = spectrogram.cells[r + 1][c + 1]

\* C28 witness: a (2, 3) spectrogram whose second row differs from its
\* first was split with the patch size (1, 2) into four patches, the last
\* of them holding cell (1, 2) and a padding zero.
C28_Witness ==
    /\ ppc = "done"
    /\ spectrogram.h = 2 /\ spectrogram.w = 3 /\ patch_size = <<1, 2>>
    /\ spectrogram.cells = <<<<0, 0, 0>>, <<1, 1, 1>>>>
    /\ Len(list_patches) = 4
    /\ list_patches[4].cells = <<<<1, 0>>>>

(***************************************************************************)
(* The dataset loaders: AudioAST.load_dataset, AudioLSTM.load_data,        *)
(* AudioDense.load_data, ResidualModel.load_data                           *)
(***************************************************************************)
Families == {"AST", "LSTM", "MLP", "Residual"}

\* the values of self.hop_length, self.window_size_factor and self.overlap
\* of the model
HopLengths == {1, 2}

WindowSizeFactors == {2}

Overlaps == {1, 2, 3}

\* self.window_size: hop_length * (window_size_factor - 1) in AudioAST and
\* ResidualModel, hop_length * window_size_factor in AudioLSTM and AudioDense
WindowSizeOf(fam, hop, factor) ==
    IF fam \in {"AST", "Residual"} THEN hop * (factor - 1) ELSE hop * factor

\* the loaders that test os.path.exists(sub_directories) before listing it
ChecksDirectory(fam) == fam \in {"AST", "LSTM"}

\* the loaders whose per-file body is inside try / except Exception
HasTryExcept(fam) == fam \in {"AST", "LSTM"}

\* the starts that windows(signal, window_size, overlap) yields from start
\* s on, for a step window_size // overlap >= 1
RECURSIVE WindowStarts(_, _, _, _)
WindowStarts(s, len, ws, ov) ==
    IF s < len THEN <<s>> \o WindowStarts(s + WindowStep(ws, ov), len, ws, ov)
    ELSE <<>>

\* The windows of one decoded file whose slice passes the test
\* len(signal[start:end]) == self.window_size, from the i-th yielded start
\* on.  rows = 0: signal is still the waveform, of signal_len samples.
\* AudioDense rebinds signal to the 2-D array of chunks of the window it
\* accepts (rows > 0: its number of rows), and the later slices
\* signal[start:end] are slices of that array.
RECURSIVE AcceptedStarts(_, _, _, _, _, _)
AcceptedStarts(fam, starts, i, len, ws, rows) ==
    IF i > Len(starts) THEN <<>>
    ELSE LET s == starts[i]
             sliced == IF rows = 0 THEN Max(0, Min(s + ws, len) - s)
                                   ELSE Max(0, Min(s + ws, rows) - s)
         IN  IF sliced = ws
                THEN <<s>> \o AcceptedStarts(fam, starts, i + 1, len, ws,
                                IF fam = "MLP"
                                   THEN CeilDiv(ws, ws \div window_size_factor)
                                   ELSE rows)
                ELSE AcceptedStarts(fam, starts, i + 1, len, ws, rows)

\* the tensor emitted for the window at start s of file number f: the
\* spectrogram loaders read signal[start:end], the raw-segment loaders read
\* the chunks signal[i:i + local_window] for i = 0, local_window, ...
TensorOf(fam, f, s) ==
    [file |-> f, start |-> s,
     read_from |-> IF fam \in {"AST", "Residual"} THEN s ELSE 0]

\* What the body of the file loop does with file number f:
\*   kind "ok"     its tensors are appended
\*   kind "caught" an exception was raised and caught: the tensors appended
\*                 before it stay, the error is logged
\*   kind "raise"  an exception leaves the loader
\*   kind "hang"   the window loop never ends (step 0, see windows())
FileBody(fam, f, file, ws, ov) ==
    LET step == WindowStep(ws, ov)
        full == file.signal_len >= ws
    IN  IF file.fault = "decode"
           THEN [kind |-> IF HasTryExcept(fam) THEN "caught" ELSE "raise",
                 tensors |-> <<>>]
        ELSE IF file.fault = "extract" /\ full
           THEN [kind |-> IF HasTryExcept(fam) THEN "caught" ELSE "raise",
                 tensors |-> <<>>]
        ELSE IF step = 0 /\ file.signal_len > 0
           THEN [kind |-> "hang", tensors |-> <<>>]
        ELSE LET starts == WindowStarts(0, file.signal_len, ws, ov)
                 accepted == AcceptedStarts(fam, starts, 1, file.signal_len, ws, 0)
             IN  [kind |-> "ok",
                  tensors |-> [j \in 1..Len(accepted) |-> TensorOf(fam, f, accepted[j])]]

\* the file loop from file number f on, with the lists built so far
RECURSIVE FileLoop(_, _, _, _, _, _)
FileLoop(fam, f, fs, ws, ov, acc) ==
    IF f > Len(fs) THEN [acc EXCEPT !.outcome = "returned"]
    ELSE LET body == FileBody(fam, f, fs[f], ws, ov)
             labels == [j \in 1..Len(body.tensors) |-> fs[f].label]
             more == [acc EXCEPT !.features = @ \o body.tensors,
                                 !.labels = @ \o labels]
         IN  CASE body.kind = "ok" -> FileLoop(fam, f + 1, fs, ws, ov, more)
               [] body.kind = "caught" ->
                    FileLoop(fam, f + 1, fs, ws, ov,
                             [more EXCEPT !.logged = @ + 1])
               [] body.kind = "raise" ->
                    [outcome |-> "raised", features |-> <<>>, labels |-> <<>>,
                     logged |-> acc.logged]
               [] body.kind = "hang" ->
                    [outcome |-> "hung", features |-> <<>>, labels |-> <<>>,
                     logged |-> acc.logged]

\* load_dataset(sub_directories) / load_data(sub_directories)
LoadData(fam, exists, fs, ws, ov) ==
    IF ~exists
       THEN IF ChecksDirectory(fam)
               THEN [outcome |-> "none", features |-> <<>>, labels |-> <<>>,
                     logged |-> 1]
               ELSE [outcome |-> "raised", features |-> <<>>, labels |-> <<>>,
                     logged |-> 0]
       ELSE FileLoop(fam, 1, fs, ws, ov,
                     [outcome |-> "call", features |-> <<>>, labels |-> <<>>,
                      logged |-> 0])

AudioFiles ==
    [fault : {"none", "decode", "extract"}, signal_len : 0..MaxSignal,
     label : 0..1]

\* a call of the loader of one family; a directory that does not exist
\* holds no files
LoaderInit ==
    /\ family \in Families
    /\ hop_length \in HopLengths
    /\ window_size_factor \in WindowSizeFactors
    /\ l_overlap \in Overlaps
    /\ dir_exists \in BOOLEAN
    /\ \E n \in 0..MaxFiles : files \in [1..n -> AudioFiles]
    /\ (~dir_exists => files = <<>>)
    /\ load_outcome = "call"
    /\ array_features = <<>>
    /\ array_labels = <<>>
    /\ errors_logged = 0

\* the loader runs to its end (or to the exception that leaves it)
LoaderRun ==
    /\ load_outcome = "call"
    /\ LET out == LoadData(family, dir_exists, files,
                           WindowSizeOf(family, hop_length, window_size_factor),
                           l_overlap)
       IN  /\ load_outcome' = out.outcome
           /\ array_features' = out.features
           /\ array_labels' = out.labels
           /\ errors_logged' = out.logged
    /\ UNCHANGED <<hop_length, window_size_factor, l_overlap, dir_exists, files>>
    /\ Frame("loader")

NextLoader == LoaderRun

InitLoader == LoaderInit /\ IdleBut("loader")

SpecLoader == InitLoader /\ [][NextLoader]_vars

(***************************************************************************)
(* Claims about the dataset loaders.                                       *)
(***************************************************************************)
\* the loader has run and the window step was positive (it could not hang)
LoaderEnded ==
    /\ load_outcome \notin {"idle", "call"}
    /\ (IF family \in {"AST", "Residual"}
           THEN hop_length * (window_size_factor - 1)
           ELSE hop_length * window_size_factor) \div l_overlap >= 1

\* C6: in every family's loader, a file whose decoding or feature
\* extraction raises is skipped and the load continues: whenever the
\* directory exists the loader returns its arrays, and every file that
\* raises nothing has its tensors and label in them.
C6_BadFileNeverAborts ==
    (LoaderEnded /\ dir_exists) =>
        /\ load_outcome = "returned"
        /\ \A f \in 1..Len(files) :
              (files[f].fault = "none" /\
               files[f].signal_len >=
                   (IF family \in {"AST", "Residual"}
                       THEN hop_length * (window_size_factor - 1)
                       ELSE hop_length * window_size_factor))
              => \E i \in 1..Len(array_features) :
                    /\ array_features[i].file = f
                    /\ array_labels[i] = files[f].label

\* C7: in every family's loader, when the root directory does not exist
\* the loader returns the pair (None, None) and raises nothing.
C7_MissingDirectoryReturnsNone ==
    (load_outcome \notin {"idle", "call"} /\ ~dir_exists) => load_outcome = "none"

\* self.window_size and the window step of the loader call
LoaderWindowSize ==
    IF family \in {"AST", "Residual"}
       THEN hop_length * (window_size_factor - 1)
       ELSE hop_length * window_size_factor

LoaderStep == LoaderWindowSize \div l_overlap

\* the window starts of file f that the claim counts: the starts s that
\* windows() yields with s + window_size <= L
ClaimedStarts(f) ==
    {s \in 0..files[f].signal_len :
        s % LoaderStep = 0 /\ s + LoaderWindowSize <= files[f].signal_len}

\* C16: in every family's loader, a decodable file of waveform length L has
\* exactly one tensor, with the file's label, for each window start s that
\* windows() yields with s + window_size <= L and none for a shorter
\* trailing window: floor((L - window_size) / step) + 1 tensors when
\* L >= window_size (step = window_size // overlap >= 1) and 0 otherwise.
C16_OneTensorPerFullWindow ==
    (load_outcome = "returned" /\ LoaderStep >= 1) =>
        \A f \in 1..Len(files) :
            files[f].fault = "none" =>
                LET mine == {i \in 1..Len(array_features) :
                                array_features[i].file = f}
                    L == files[f].signal_len
                IN  /\ \A i \in mine : array_labels[i] = files[f].label
                    /\ \A s \in ClaimedStarts(f) :
                          Cardinality({i \in mine : array_features[i].start = s}) = 1
                    /\ \A i \in mine : array_features[i].start \in ClaimedStarts(f)
                    /\ Cardinality(mine) =
                          (IF L >= LoaderWindowSize
                              THEN (L - LoaderWindowSize) \div LoaderStep + 1
                              ELSE 0)

(***************************************************************************)
(* The configuration block of train(): the hyperparameters of an instance  *)
(* over a sequence of train() calls.  train() writes the attributes below  *)
(* in its first lines only; the loader, the fold loop and the report read  *)
(* them afterwards.                                                        *)
(***************************************************************************)
None == 0

\* the keyword argument of train() that each attribute falls back from
ArgumentOf ==
    [number_epochs |-> "number_epochs", number_splits |-> "number_splits",
     size_batch |-> "batch_size", loss_function |-> "loss",
     sample_rate |-> "sample_rate", overlap |-> "overlap",
     number_classes |-> "number_classes"]

TrainArguments == {ArgumentOf[a] : a \in HyperParameters}

\* the truthy values passed to train() and to __init__ in the model
TruthyValues == {3, 6}
GivenValues == {7}

\* the keyword arguments of a call: all None, all set, or one set
ArgumentVectors ==
    {[p \in TrainArguments |-> None]}
    \cup {[p \in TrainArguments |-> v] : v \in TruthyValues}
    \cup {[p \in TrainArguments |-> IF p = q THEN v ELSE None] :
             q \in TrainArguments, v \in TruthyValues}

\* the options object `arguments` of a call; AudioDense.train takes none
OptionOverlaps == {1, 2}
Options(fam) ==
    IF fam = "MLP" THEN {[overlap |-> None]}
    ELSE {[overlap |-> o] : o \in OptionOverlaps}

PyOrTakesArgument(x, y) == x

\* Python's `x or y`
PyOr(x, y) == IF x # None THEN x ELSE y

OptionIgnored(attribute, option) == attribute

\* self.overlap = arguments.<family>_overlap: the assignment that follows the
\* fallbacks overwrites whatever the attribute held
OptionOverride(attribute, option) == option

\* the attributes after the configuration block of train() of class fam,
\* called with keyword arguments args and options opts on attributes self
Configure(fam, self, args, opts) ==
    LET fallback == [a \in HyperParameters |-> PyOr(args[ArgumentOf[a]], self[a])]
        optioned == IF fam \in {"AST", "LSTM", "Residual"}
                    THEN [fallback EXCEPT !["overlap"] =
                            OptionOverride(fallback["overlap"], opts.overlap)]
                    ELSE fallback
    IN  IF fam = "LSTM"
        THEN [optioned EXCEPT !["number_classes"] = args["number_classes"]]
        ELSE optioned

ConfigInit ==
    /\ family \in Families
    /\ constructor \in {[a \in HyperParameters |-> DefaultValues[a]]}
                       \cup {[a \in HyperParameters |-> v] : v \in GivenValues}
    /\ calls = <<>>
    /\ attrs = constructor
    /\ used = constructor

\* one train() call: the configuration block, then the run that reads the
\* attributes it left
Train ==
    /\ Len(calls) < MaxCalls
    /\ \E args \in ArgumentVectors, opts \in Options(family) :
          /\ calls' = Append(calls, [args |-> args, arguments |-> opts])
          /\ attrs' = Configure(family, attrs, args, opts)
          /\ used' = Configure(family, attrs, args, opts)
    /\ UNCHANGED constructor
    /\ Frame("config")

NextConfig == Train

InitConfig == ConfigInit /\ IdleBut("config")

SpecConfig == InitConfig /\ [][NextConfig]_vars

(***************************************************************************)
(* Claims about the configuration block of train().                        *)
(***************************************************************************)
\* the latest train() call, when there is one
LatestCall == calls[Len(calls)]

\* the six arguments that the fallback claim names, by attribute
FallbackAttributes ==
    {"number_epochs", "number_splits", "size_batch", "loss_function",
     "sample_rate", "number_classes"}

\* C8: in every family's train(), passing a falsy/None value for
\* number_epochs, number_splits, batch_size, loss, sample_rate or
\* number_classes leaves the attribute at the value it had before the call,
\* and that value is the one the fold loop and the report use.
C8_FalsyArgumentKeepsAttribute ==
    [][\A a \in FallbackAttributes :
          (Len(calls') = Len(calls) + 1
           /\ calls'[Len(calls')].args[ArgumentOf[a]] = None)
          => (attrs'[a] = attrs[a] /\ used'[a] = attrs[a])]_vars

\* the five hyperparameters that only the fallback line of train() writes
PlainHyperParameters ==
    {"number_epochs", "number_splits", "size_batch", "loss_function",
     "sample_rate"}

RECURSIVE LatestSet(_, _)
LatestSet(cs, a) ==
    IF cs = <<>> THEN constructor[a]
    ELSE IF cs[Len(cs)].args[ArgumentOf[a]] # None
         THEN cs[Len(cs)].args[ArgumentOf[a]]
         ELSE LatestSet(SubSeq(cs, 1, Len(cs) - 1), a)

\* the hyperparameters whose only write in train() of class fam is the
\* fallback line
FallbackOnly(fam) ==
    PlainHyperParameters
    \cup (IF fam = "LSTM" THEN {} ELSE {"number_classes"})
    \cup (IF fam = "MLP" THEN {"overlap"} ELSE {})

OptionFamilies == {"AST", "LSTM", "Residual"}

\* C20: in the families whose train() takes an options object (AST, LSTM,
\* residual), a hyperparameter supplied both as an explicit train() argument
\* and in the options object takes the options object's value: after
\* configuration the effective overlap equals the options' overlap for every
\* value of the explicit overlap argument.
C20_OptionsOverlapWins ==
    (family \in OptionFamilies /\ Len(calls) > 0) =>
        /\ attrs["overlap"] = LatestCall.arguments.overlap
        /\ used["overlap"] = LatestCall.arguments.overlap

\* C20 witness: train() was called with an explicit overlap of 6 and an
\* options object whose overlap is 2, and the run used 2.
C20_Witness ==
    /\ family \in OptionFamilies
    /\ Len(calls) > 0
    /\ LatestCall.args["overlap"] = 6
    /\ LatestCall.arguments.overlap = 2
    /\ used["overlap"] = 2

(***************************************************************************)
(* train(): the run after the configuration block.  The loader's result is *)
(* a label array grouped by class directory; train_test_split and          *)
(* StratifiedKFold are sklearn's, modelled from what train() asks of them. *)
(***************************************************************************)
\* the class sizes <<class 0, class 1>> of the datasets loaded in the model
LoadedCounts == {<<0, 0>>, <<4, 0>>, <<3, 3>>, <<1, 5>>}

\* the labels array of a dataset: the loaders append class after class
LabelsOf(counts) ==
    [i \in 1..(counts[1] + counts[2]) |-> IF i <= counts[1] THEN 0 ELSE 1]

\* what the loader of class fam may hand to train(): arrays, or (None, None)
\* where the loader checks the directory, or a fault where it does not
LoadOutcomes(fam) ==
    {[kind |-> "arrays", labels |-> LabelsOf(c)] : c \in LoadedCounts}
    \cup (IF ChecksDirectory(fam)
          THEN {[kind |-> "none", labels |-> <<>>]}
          ELSE {[kind |-> "raised", labels |-> <<>>]})

\* the elements of a set of numbers in increasing order
RECURSIVE Ascending(_)
Ascending(S) ==
    IF S = {} THEN <<>>
    ELSE LET m == CHOOSE x \in S : \A y \in S : x <= y
         IN  <<m>> \o Ascending(S \ {m})

\* arr[indexes]
Take(arr, indexes) == [j \in 1..Len(indexes) |-> arr[indexes[j]]]

\* AudioAST.train reads features.shape[1] before the split: a fault on None
\* and on an empty array
ShapeRaises(fam, data) ==
    fam = "AST" /\ (data.kind = "none" \/ data.labels = <<>>)

\* test_size=0.2: the held-out part has ceil(0.2 * n) rows
NumberTest(n) == CeilDiv(n, 5)
NumberTrain(n) == n - NumberTest(n)

\* train_test_split(..., stratify=labels) raises on no data, on an empty
\* part, on a class of one member and on a part smaller than the number of
\* classes; on (None, None) the labels are no collection
SplitRaises(data) ==
    \/ data.kind = "none"
    \/ LET n == Len(data.labels)
           classes == UniqueClasses(data.labels)
       IN  \/ n = 0
           \/ NumberTrain(n) = 0
           \/ \E c \in classes : ClassCount(data.labels, c) < 2
           \/ NumberTrain(n) < Cardinality(classes)
           \/ NumberTest(n) < Cardinality(classes)

\* the stratified class sizes of the train part: each class gets the floor
\* of its share, and the rows still missing go to the classes of largest
\* remainder, ties broken by the seeded generator
TrainCounts(labels) ==
    LET n == Len(labels)
        classes == UniqueClasses(labels)
        share(c) == NumberTrain(n) * ClassCount(labels, c)
        floored == [c \in classes |-> share(c) \div n]
        need == NumberTrain(n) - CountSum(floored)
    IN  {[c \in classes |-> floored[c] + (IF c \in S THEN 1 ELSE 0)] :
            S \in {T \in SUBSET classes :
                     /\ Cardinality(T) = need
                     /\ \A c \in T, d \in classes \ T :
                           share(c) % n >= share(d) % n}}

\* the row sets train_test_split may give to the train part
TrainRows(labels) ==
    {S \in SUBSET (1..Len(labels)) :
        \E counts \in TrainCounts(labels) :
            \A c \in UniqueClasses(labels) :
                Cardinality({i \in S : labels[i] = c}) = counts[c]}

HeldOutEverything(n, S) == 1..n

\* the rows of the held-out part, given those of the train part: the two
\* parts of train_test_split share no row and hold every row
HeldOut(n, S) == (1..n) \ S

\* StratifiedKFold(n_splits=k) raises for k < 2, and split() raises when k
\* exceeds the size of every class
KFoldRaises(k, labels) ==
    \/ k < 2
    \/ \A c \in UniqueClasses(labels) : k > ClassCount(labels, c)

\* the classes of labels in the order of their first row, and the labels
\* sorted in that order (sklearn's y_order)
RECURSIVE ClassesByAppearance(_, _)
ClassesByAppearance(labels, seen) ==
    IF labels = <<>> THEN <<>>
    ELSE IF Head(labels) \in seen THEN ClassesByAppearance(Tail(labels), seen)
    ELSE <<Head(labels)>>
         \o ClassesByAppearance(Tail(labels), seen \cup {Head(labels)})

RECURSIVE YOrder(_, _)
YOrder(labels, classes) ==
    IF classes = <<>> THEN <<>>
    ELSE [j \in 1..ClassCount(labels, Head(classes)) |-> Head(classes)]
         \o YOrder(labels, Tail(classes))

\* allocation[i][c]: the rows of class c that fold i validates, counted on
\* every k-th entry of the sorted labels from entry i on
Allocation(labels, k, i, c) ==
    LET y_order == YOrder(labels, ClassesByAppearance(labels, {}))
    IN  Cardinality({j \in 0..(Len(labels) - 1) :
                        j % k = i /\ y_order[j + 1] = c})

\* the fold assignments split() may draw with shuffle=True: each class gives
\* each fold its allocated number of rows, which rows being up to the
\* seeded generator
TestFolds(labels, k) ==
    {tf \in [1..Len(labels) -> 0..(k - 1)] :
        \A c \in UniqueClasses(labels), i \in 0..(k - 1) :
            Cardinality({p \in 1..Len(labels) : labels[p] = c /\ tf[p] = i})
                = Allocation(labels, k, i, c)}

\* the index arrays that split() yields for fold i
AllIndexes(tf, i) == Ascending(1..Len(tf))

ValIndexes(tf, i) == Ascending({p \in 1..Len(tf) : tf[p] = i})

TrainIndexes(tf, i) == Ascending({p \in 1..Len(tf) : tf[p] # i})

FoldsLeftAndOneMore(done, k) == done <= k

\* split() yields n_splits folds
FoldsLeft(done, k) == done < k

\* the calls of one iteration of the fold loop, and those made when the
\* call named by fault raises
FoldCalls ==
    <<"balance_classes", "build_model", "compile_and_train", "predict",
      "calculate_metrics">>

Faults == {"none", "build_model", "compile_and_train", "predict",
           "calculate_metrics"}

CallsUntil(fault) ==
    IF fault = "none" THEN FoldCalls
    ELSE SubSeq(FoldCalls, 1,
                CHOOSE j \in 1..Len(FoldCalls) : FoldCalls[j] = fault)

BuiltModelKept(previous, fold) == IF previous = None THEN fold ELSE previous

\* build_model assigns a newly constructed Model to
\* self.neural_network_model, whatever the attribute held
BuiltModel(previous, fold) == fold

FitHistoryKept(previous, fold) == IF previous = None THEN fold ELSE previous

\* history_model = self.compile_and_train(...): the name is rebound to the
\* History of the fit that just ended
FitHistory(previous, fold) == fold

\* model.predict(inputs): one row per input row, by that model
Predict(model, inputs) ==
    [j \in 1..Len(inputs) |-> [model |-> model, sample |-> inputs[j]]]

\* numpy.concatenate(parts): the rows of the arrays, one array after another
RECURSIVE ConcatenateFrom(_, _)
ConcatenateFrom(parts, i) ==
    IF i > Len(parts) THEN <<>>
    ELSE parts[i] \o ConcatenateFrom(parts, i + 1)

ConcatenateLast(parts) == IF parts = <<>> THEN <<>> ELSE parts[Len(parts)]

Concatenate(parts) == ConcatenateFrom(parts, 1)

PhaseAfterSwallowed(fault) == "FoldTraining"

\* the fold loop has no try/except: a fault of a call of the body leaves
\* train(), and only a body that ran to its end leads to the next iteration
PhaseAfter(fault) == IF fault = "none" THEN "FoldTraining" ELSE "Raised"

\* the phase the run is in
Phase == phases[Len(phases)]

TrainInit ==
    /\ family \in Families
    /\ number_splits \in 1..MaxSplits
    /\ loaded = [kind |-> "idle", labels |-> <<>>]
    /\ features_test = <<>>
    /\ labels_test = <<>>
    /\ features_train_val = <<>>
    /\ labels_train_val = <<>>
    /\ test_folds = <<>>
    /\ folds = <<>>
    /\ metrics_list = <<>>
    /\ history_model = None
    /\ phases = <<"Configured">>
    /\ trace = <<>>
    /\ t_seeded = <<>>
    /\ balance_calls = <<>>
    /\ neural_network_model = None
    /\ model_uses = <<>>
    /\ probabilities_list = <<>>
    /\ real_labels_list = <<>>
    /\ returned = <<>>

\* features, labels = self.load_dataset(dataset_directory)
TrainLoad ==
    /\ Phase = "Configured"
    /\ \E out \in LoadOutcomes(family) :
          /\ loaded' = out
          /\ phases' = Append(phases, IF out.kind = "raised" THEN "Raised"
                                      ELSE "DataLoaded")
    /\ trace' = Append(trace, "load_dataset")
    /\ UNCHANGED <<number_splits, features_test, labels_test,
                   features_train_val, labels_train_val, test_folds, folds,
                   metrics_list, history_model, t_seeded, balance_calls,
                   neural_network_model, model_uses, probabilities_list,
                   real_labels_list, returned>>
    /\ Frame("train")

\* the split cannot be made: train() raises
TrainSplitRaise ==
    /\ Phase = "DataLoaded"
    /\ ShapeRaises(family, loaded) \/ SplitRaises(loaded)
    /\ phases' = Append(phases, "Raised")
    /\ trace' = IF ShapeRaises(family, loaded) THEN trace
                ELSE Append(trace, "train_test_split")
    /\ UNCHANGED <<number_splits, loaded, features_test, labels_test,
                   features_train_val, labels_train_val, test_folds, folds,
                   metrics_list, history_model, t_seeded, balance_calls,
                   neural_network_model, model_uses, probabilities_list,
                   real_labels_list, returned>>
    /\ Frame("train")

\* train_test_split(features, labels, test_size=0.2, stratify=labels,
\* random_state=42), then balance_classes on the train/validation part.
\* sklearn orders the rows of each part by a seeded permutation; the model
\* keeps the loaded order, which names the same runs up to the naming of
\* the samples, every draw of resample being open.
TrainSplit ==
    /\ Phase = "DataLoaded"
    /\ ~ShapeRaises(family, loaded)
    /\ ~SplitRaises(loaded)
    /\ \E S \in TrainRows(loaded.labels) :
          LET train == Ascending(S)
              test == Ascending(HeldOut(Len(loaded.labels), S))
              pool_labels == Take(loaded.labels, train)
          IN  /\ features_test' = test
              /\ labels_test' = Take(loaded.labels, test)
              /\ \E draws \in SeededDraws(ClassSizes(pool_labels),
                                          MaxSamplesOf(pool_labels), t_seeded) :
                    LET out == BalanceClasses(train, pool_labels, draws)
                    IN  /\ features_train_val' = out.features
                        /\ labels_train_val' = out.labels
                        /\ t_seeded' = Remember(t_seeded, draws,
                                                MaxSamplesOf(pool_labels))
              /\ balance_calls' = <<[features |-> train, labels |-> pool_labels]>>
    /\ phases' = Append(phases, "Split")
    /\ trace' = trace \o <<"train_test_split", "balance_classes">>
    /\ UNCHANGED <<number_splits, loaded, test_folds, folds, metrics_list,
                   history_model, neural_network_model, model_uses,
                   probabilities_list, real_labels_list, returned>>
    /\ Frame("train")

\* StratifiedKFold(n_splits=self.number_splits, ...) or the first step of
\* its split() raises
TrainKFoldRaise ==
    /\ Phase = "Split"
    /\ KFoldRaises(number_splits, labels_train_val)
    /\ phases' = Append(phases, "Raised")
    /\ trace' = Append(trace, "StratifiedKFold")
    /\ UNCHANGED <<number_splits, loaded, features_test, labels_test,
                   features_train_val, labels_train_val, test_folds, folds,
                   metrics_list, history_model, t_seeded, balance_calls,
                   neural_network_model, model_uses, probabilities_list,
                   real_labels_list, returned>>
    /\ Frame("train")

\* one iteration of `for train_indexes, val_indexes in split(...)`: the
\* first one draws the folds; each balances its training subset, builds,
\* fits, predicts and scores, and a fault of one of these ends the run.
\* The record of the iteration holds what it binds and the validation
\* arguments its calls are written with: validation_data of
\* compile_and_train, the input of predict, and the true labels of
\* calculate_metrics.
TrainFold ==
    /\ Phase \in {"Split", "FoldTraining"}
    /\ ~KFoldRaises(number_splits, labels_train_val)
    /\ FoldsLeft(Len(folds), number_splits)
    /\ \E tf \in (IF Phase = "Split"
                  THEN TestFolds(labels_train_val, number_splits)
                  ELSE {test_folds}) :
          LET i == Len(folds)
              train_indexes == TrainIndexes(tf, i)
              val_indexes == ValIndexes(tf, i)
              features_train == Take(features_train_val, train_indexes)
              labels_train == Take(labels_train_val, train_indexes)
          IN  /\ test_folds' = tf
              /\ \E draws \in SeededDraws(ClassSizes(labels_train),
                                          MaxSamplesOf(labels_train), t_seeded) :
                    LET out == BalanceClasses(features_train, labels_train, draws)
                    IN  /\ folds' = Append(folds,
                              [train_indexes |-> train_indexes,
                               val_indexes |-> val_indexes,
                               features_train |-> out.features,
                               labels_train |-> out.labels,
                               features_val |-> Take(features_train_val, val_indexes),
                               labels_val |-> Take(labels_train_val, val_indexes),
                               validation_data |->
                                   [features |-> Take(features_train_val, val_indexes),
                                    labels |-> Take(labels_train_val, val_indexes)],
                               predict_input |-> Take(features_train_val, val_indexes),
                               metrics_labels |-> Take(labels_train_val, val_indexes)])
                        /\ t_seeded' = Remember(t_seeded, draws,
                                                MaxSamplesOf(labels_train))
              /\ balance_calls' = Append(balance_calls,
                                         [features |-> features_train,
                                          labels |-> labels_train])
    /\ \E fault \in Faults :
          /\ metrics_list' = IF fault = "none"
                             THEN Append(metrics_list, Len(folds))
                             ELSE metrics_list
          /\ neural_network_model' =
                IF fault = "build_model" THEN neural_network_model
                ELSE BuiltModel(neural_network_model, Len(folds) + 1)
          /\ model_uses' = Append(model_uses,
                [built |-> IF fault = "build_model" THEN None
                           ELSE neural_network_model',
                 fitted |-> IF fault = "build_model" THEN None
                            ELSE neural_network_model',
                 predicted |-> IF fault \in {"build_model", "compile_and_train"}
                               THEN None ELSE neural_network_model'])
          /\ history_model' = IF fault \in {"build_model", "compile_and_train"}
                              THEN history_model
                              ELSE FitHistory(history_model, Len(folds) + 1)
          /\ probabilities_list' =
                IF fault \in {"none", "calculate_metrics"}
                THEN Append(probabilities_list,
                            Predict(neural_network_model',
                                    folds'[Len(folds')].predict_input))
                ELSE probabilities_list
          /\ real_labels_list' =
                IF fault \in {"none", "calculate_metrics"}
                THEN Append(real_labels_list, folds'[Len(folds')].labels_val)
                ELSE real_labels_list
          /\ phases' = Append(phases, PhaseAfter(fault))
          /\ trace' = trace
                      \o (IF Phase = "Split" THEN <<"StratifiedKFold">> ELSE <<>>)
                      \o CallsUntil(fault)
    /\ UNCHANGED <<number_splits, loaded, features_test, labels_test,
                   features_train_val, labels_train_val, returned>>
    /\ Frame("train")

\* after the loop: the means over the folds and the returned 4-tuple
TrainAggregate ==
    /\ Phase = "FoldTraining"
    /\ ~FoldsLeft(Len(folds), number_splits)
    /\ phases' = Append(phases, "Aggregated")
    /\ trace' = Append(trace, "mean_metrics")
    /\ returned' = <<[folds |-> metrics_list],
                     [Name |-> family, History |-> history_model],
                     [folds |-> metrics_list],
                     [predicted |-> Concatenate(probabilities_list),
                      ground_truth |-> Concatenate(real_labels_list)]>>
    /\ UNCHANGED <<number_splits, loaded, features_test, labels_test,
                   features_train_val, labels_train_val, test_folds, folds,
                   metrics_list, history_model, t_seeded, balance_calls,
                   neural_network_model, model_uses, probabilities_list,
                   real_labels_list>>
    /\ Frame("train")

NextTrain ==
    \/ TrainLoad
    \/ TrainSplitRaise
    \/ TrainSplit
    \/ TrainKFoldRaise
    \/ TrainFold
    \/ TrainAggregate

InitTrain == TrainInit /\ IdleBut("train")

SpecTrain == InitTrain /\ [][NextTrain]_vars

(***************************************************************************)
(* Claims about train().                                                   *)
(***************************************************************************)
\* the set of the entries of an index array
IndexSet(indexes) == {indexes[j] : j \in 1..Len(indexes)}

\* the positions of the balanced train/validation pool
PoolPositions == 1..Len(features_train_val)

\* C5: over one complete k-fold cycle on the balanced train/validation
\* pool, the validation index sets of the folds are pairwise disjoint and
\* their union is the whole pool, and within each fold the training and
\* validation index sets are disjoint and together cover the pool.
C5_FoldsPartitionPool ==
    Phase = "Aggregated" =>
        /\ \A i, j \in 1..Len(folds) :
              i # j => IndexSet(folds[i].val_indexes)
                         \cap IndexSet(folds[j].val_indexes) = {}
        /\ UNION {IndexSet(folds[i].val_indexes) : i \in 1..Len(folds)}
              = PoolPositions
        /\ \A i \in 1..Len(folds) :
              /\ IndexSet(folds[i].train_indexes)
                    \cap IndexSet(folds[i].val_indexes) = {}
              /\ IndexSet(folds[i].train_indexes)
                    \cup IndexSet(folds[i].val_indexes) = PoolPositions

\* C5 witness: a complete cycle of three folds over a pool of three rows,
\* each fold validating one row and training on the other two.
C5_Witness ==
    /\ Phase = "Aggregated"
    /\ Len(folds) = 3
    /\ Len(features_train_val) = 3
    /\ \A i \in 1..3 : Len(folds[i].val_indexes) = 1
                       /\ Len(folds[i].train_indexes) = 2

\* the number of entries of a sequence that equal e
Occurrences(seq, e) == Cardinality({j \in 1..Len(seq) : seq[j] = e})

\* k times the sequence seq
RECURSIVE Repeat(_, _)
Repeat(seq, k) == IF k = 0 THEN <<>> ELSE seq \o Repeat(seq, k - 1)

\* C10: every train() run that returns passes through the phases
\* Configured, DataLoaded, Split, FoldTraining, Aggregated in that order
\* without revisiting an earlier phase: the loader is invoked exactly once,
\* the holdout split and the pool balancing happen once before the first
\* fold, the fold body runs exactly number_splits times, and aggregation
\* happens only after the last fold.
C10_PhasesInOrder ==
    Phase = "Aggregated" =>
        /\ phases = <<"Configured", "DataLoaded", "Split">>
                    \o Repeat(<<"FoldTraining">>, number_splits)
                    \o <<"Aggregated">>
        /\ trace = <<"load_dataset", "train_test_split", "balance_classes",
                     "StratifiedKFold">>
                   \o Repeat(<<"balance_classes", "build_model",
                               "compile_and_train", "predict",
                               "calculate_metrics">>, number_splits)
                   \o <<"mean_metrics">>
        /\ Occurrences(trace, "load_dataset") = 1
        /\ Occurrences(trace, "train_test_split") = 1
        /\ Len(folds) = number_splits
        /\ Len(metrics_list) = number_splits

\* C10 witness: a run of three folds has returned.
C10_Witness ==
    /\ Phase = "Aggregated"
    /\ number_splits = 3
    /\ Occurrences(phases, "FoldTraining") = 3
    /\ Occurrences(trace, "build_model") = 3

\* the rows of the pool that fold i (numbered from 0) validates, and the
\* others, read off the fold assignment
RowsOfFold(i) == {p \in 1..Len(test_folds) : test_folds[p] = i}
RowsOffFold(i) == {p \in 1..Len(test_folds) : test_folds[p] # i}

\* C11: in every train() run, balance_classes is applied exactly once to the
\* train/validation pool, after the held-out split, and exactly once per
\* fold to that fold's training subset; it is never applied to a fold's
\* validation subset, which goes to fit, predict and the metrics
\* calculation exactly as the fold's validation indices select it.
C11_BalanceOnlyPoolAndTrainingSubsets ==
    /\ Len(balance_calls) = Occurrences(trace, "balance_classes")
    /\ Len(balance_calls) = (IF features_train_val = <<>> THEN 0 ELSE 1) + Len(folds)
    /\ features_train_val # <<>> =>
          /\ trace[2] = "train_test_split" /\ trace[3] = "balance_classes"
          /\ IndexSet(balance_calls[1].features)
                = (1..Len(loaded.labels)) \ IndexSet(features_test)
          /\ \A j \in 1..Len(balance_calls[1].features) :
                balance_calls[1].labels[j]
                    = loaded.labels[balance_calls[1].features[j]]
    /\ \A i \in 1..Len(folds) :
          LET training == Ascending(RowsOffFold(i - 1))
              validation == Ascending(RowsOfFold(i - 1))
          IN  /\ balance_calls[i + 1].features = Take(features_train_val, training)
              /\ balance_calls[i + 1].labels = Take(labels_train_val, training)
              /\ folds[i].validation_data
                    = [features |-> Take(features_train_val, validation),
                       labels |-> Take(labels_train_val, validation)]
              /\ folds[i].predict_input = Take(features_train_val, validation)
              /\ folds[i].metrics_labels = Take(labels_train_val, validation)

\* C11 witness: a returned run of two folds over a pool of two classes made
\* three balance_classes calls, and each fold validated a row of each class
\* on a training subset of the other rows.
C11_Witness ==
    /\ Phase = "Aggregated"
    /\ Len(folds) = 2
    /\ Len(balance_calls) = 3
    /\ \A i \in 1..2 :
          /\ {folds[i].metrics_labels[j] : j \in 1..Len(folds[i].metrics_labels)}
                = {0, 1}
          /\ Len(balance_calls[i + 1].features) = 2

\* the folds entered whose metrics were not appended: a call of their body
\* raised
FaultedFolds == {i \in 1..Len(folds) : (i - 1) \notin IndexSet(metrics_list)}

\* C12: if model construction, compile_and_train, predict or
\* calculate_metrics raises in a fold, train() propagates the fault: no
\* later fold is run and no report is returned, not even a partial one
\* built from the completed folds.
C12_FoldFaultAbortsTrain ==
    \A i \in FaultedFolds :
        /\ i = Len(folds)
        /\ Phase = "Raised"
        /\ Occurrences(phases, "Aggregated") = 0
        /\ Occurrences(trace, "mean_metrics") = 0
        /\ trace[Len(trace)] \in Faults \ {"none"}

\* C12 witness: of three folds, the first completed and predict raised in
\* the second; the run ended there.
C12_Witness ==
    /\ number_splits = 3
    /\ Len(folds) = 2
    /\ metrics_list = <<0>>
    /\ trace[Len(trace)] = "predict"
    /\ Phase = "Raised"

\* the folds (numbered from 1) whose body ran to its end
CompletedFolds == {metrics_list[j] + 1 : j \in 1..Len(metrics_list)}

\* C21: in every fold of train(), build_model is called before
\* compile_and_train, which is called before predict, which is called
\* before calculate_metrics; and the model that is fitted and used for
\* prediction in fold i is the model built in fold i, never one built in an
\* earlier fold.
C21_FoldUsesItsOwnModel ==
    /\ \A p \in 1..Len(trace) :
          /\ trace[p] = "compile_and_train"
                => (p > 1 /\ trace[p - 1] = "build_model")
          /\ trace[p] = "predict"
                => (p > 2 /\ trace[p - 1] = "compile_and_train")
          /\ trace[p] = "calculate_metrics"
                => (p > 3 /\ trace[p - 1] = "predict")
    /\ Len(model_uses) = Len(folds)
    /\ \A i \in 1..Len(model_uses) :
          /\ model_uses[i].fitted \in {None, i}
          /\ model_uses[i].predicted \in {None, i}
          /\ i \in CompletedFolds =>
                /\ model_uses[i].built = i
                /\ model_uses[i].fitted = i
                /\ model_uses[i].predicted = i

\* C21 witness: a run of three folds has returned, and the third fold
\* fitted and predicted with the third model built.
C21_Witness ==
    /\ Phase = "Aggregated"
    /\ Len(model_uses) = 3
    /\ model_uses[2].fitted = 2
    /\ model_uses[3].fitted = 3 /\ model_uses[3].predicted = 3
    /\ neural_network_model = 3

\* the validation positions of the folds from fold i on, in fold order
RECURSIVE ValidationOrder(_)
ValidationOrder(i) ==
    IF i > Len(folds) THEN <<>>
    ELSE folds[i].val_indexes \o ValidationOrder(i + 1)

\* C22: when train() returns, the 'predicted' and 'ground_truth' entries of
\* the probabilities report have the same number of rows, equal to the size
\* of the balanced train/validation pool; they are the per-fold validation
\* predictions and labels concatenated in fold order, so row i of
\* 'predicted' is the prediction for the sample whose label is
\* ground_truth[i] and every pool element appears exactly once.
C22_OutOfFoldRowsCoverPoolOnce ==
    Phase = "Aggregated" =>
        LET predicted == returned[4].predicted
            ground_truth == returned[4].ground_truth
            order == ValidationOrder(1)
        IN  /\ Len(predicted) = Len(features_train_val)
            /\ Len(ground_truth) = Len(features_train_val)
            /\ Len(order) = Len(features_train_val)
            /\ \A r \in 1..Len(order) :
                  /\ predicted[r].sample = features_train_val[order[r]]
                  /\ ground_truth[r] = labels_train_val[order[r]]
                  /\ ground_truth[r] = loaded.labels[predicted[r].sample]
            /\ \A p \in PoolPositions :
                  Cardinality({r \in 1..Len(order) : order[r] = p}) = 1

\* C22 witness: a run of two folds over a balanced pool of four rows has
\* returned four predictions and four labels, two of each fold.
C22_Witness ==
    /\ Phase = "Aggregated"
    /\ Len(folds) = 2
    /\ Len(features_train_val) = 4
    /\ Len(returned[4].predicted) = 4
    /\ Len(returned[4].ground_truth) = 4
    /\ returned[4].predicted[1].model = 1
    /\ returned[4].predicted[4].model = 2

\* C23: in every fold of train(), no sample of the train/validation pool as
\* it was before balancing occurs (as itself or as a resampled copy) in
\* both the fold's training subset and the fold's validation subset.
C23_NoSampleOnBothSidesOfFold ==
    \A i \in 1..Len(folds) :
        /\ IndexSet(Take(features_train_val, folds[i].train_indexes))
              \cap IndexSet(folds[i].features_val) = {}
        /\ IndexSet(folds[i].features_train)
              \cap IndexSet(folds[i].features_val) = {}

\* the samples of every array that a fold hands to fit, to predict and to
\* calculate_metrics, and of those the run hands to balance_classes
SamplesUsed ==
    UNION ({IndexSet(balance_calls[j].features) : j \in 1..Len(balance_calls)}
           \cup {IndexSet(folds[i].features_train) : i \in 1..Len(folds)}
           \cup {IndexSet(folds[i].validation_data.features) : i \in 1..Len(folds)}
           \cup {IndexSet(folds[i].predict_input) : i \in 1..Len(folds)})

\* C27: in every train() run, the held-out test split (20% of the loaded
\* samples, disjoint from the train/validation pool) is never passed to
\* balance_classes, the k-fold splitter, fit, predict or calculate_metrics,
\* and no element of the returned 4-tuple depends on it.
C27_TestSplitNeverUsed ==
    features_train_val # <<>> =>
        LET held_out == IndexSet(features_test)
        IN  /\ held_out # {}
            /\ 5 * (Len(features_test) - 1) < Len(loaded.labels)
            /\ Len(loaded.labels) <= 5 * Len(features_test)
            /\ held_out \cap IndexSet(features_train_val) = {}
            /\ held_out \cap SamplesUsed = {}
            /\ \A i \in 1..Len(folds) :
                  /\ Len(folds[i].metrics_labels) = Len(folds[i].predict_input)
                  /\ \A j \in 1..Len(folds[i].metrics_labels) :
                        folds[i].metrics_labels[j]
                            = loaded.labels[folds[i].predict_input[j]]
            /\ returned # <<>> =>
                  /\ \A r \in 1..Len(returned[4].predicted) :
                        returned[4].predicted[r].sample \notin held_out
                  /\ Len(returned[4].ground_truth) = Len(features_train_val)
                  /\ returned[1].folds = returned[3].folds
                  /\ \A j \in 1..Len(returned[1].folds) :
                        returned[1].folds[j] = j - 1

\* C27 witness: of six loaded samples two were held out, and the run
\* returned after two folds that never saw them.
C27_Witness ==
    /\ Phase = "Aggregated"
    /\ Len(loaded.labels) = 6
    /\ Len(features_test) = 2
    /\ Len(labels_test) = 2
    /\ Len(folds) = 2
    /\ returned # <<>>

\* C30: the History element of train()'s return value is the training
\* history of the last fold only: the history of every earlier fold is
\* overwritten and does not appear anywhere in the returned 4-tuple.
C30_HistoryOfLastFoldOnly ==
    /\ \A i \in 1..Len(model_uses) :
          (model_uses[i].predicted # None /\ i = Len(model_uses))
              => history_model = i
    /\ returned # <<>> =>
          /\ returned[2].History = number_splits
          /\ returned[2].History = Len(folds)
          /\ \A i \in 1..(Len(folds) - 1) : returned[2].History # i
          /\ DOMAIN returned[2] = {"Name", "History"}
          /\ Len(returned) = 4

\* C30 witness: a run of three folds has returned the history of its third
\* fit.
C30_Witness ==
    /\ Phase = "Aggregated"
    /\ number_splits = 3
    /\ returned # <<>>
    /\ returned[2].History = 3
    /\ history_model = 3

(***************************************************************************)
(* The window loop of the raw-segment loaders, AudioLSTM.load_data and     *)
(* AudioDense.load_data, on one decoded file                               *)
(***************************************************************************)
\* the amplitudes of a sample in the model
Amplitudes == {-1, 0, 2}

SegmentFamilies == {"LSTM", "MLP"}

\* numpy.abs on one value and on a 2-D array
AbsValue(x) == IF x < 0 THEN 0 - x ELSE x

AbsArray(rows) ==
    [j \in 1..Len(rows) |-> [k \in 1..Len(rows[j]) |-> AbsValue(rows[j][k])]]

\* len(arr[start:end]): a slice stops at the end of the first axis
SliceLength(arr, from, to) ==
    Max(0, Min(to, Len(arr)) - Min(from, Len(arr)))

\* [signal[i:i + local_window] for i in range(0, n, local_window)]
SignalSegments(arr, n, local_window) ==
    [j \in 1..CeilDiv(n, local_window) |->
        SubSeq(arr, (j - 1) * local_window + 1,
               Min(j * local_window, Len(arr)))]

\* numpy.min and numpy.max over all entries of a 2-D array
Entries(rows) ==
    UNION {{rows[j][k] : k \in 1..Len(rows[j])} : j \in 1..Len(rows)}

ArrayMin(rows) == CHOOSE m \in Entries(rows) : \A x \in Entries(rows) : m <= x

ArrayMax(rows) == CHOOSE m \in Entries(rows) : \A x \in Entries(rows) : m >= x

\* (signal_segments - signal_min) / (signal_max - signal_min) when the two
\* differ, numpy.zeros_like(signal_segments) when they do not
Normalized(rows) ==
    LET signal_min == ArrayMin(rows)
        signal_max == ArrayMax(rows)
    IN  [j \in 1..Len(rows) |-> [k \in 1..Len(rows[j]) |->
            IF signal_max # signal_min
               THEN [num |-> rows[j][k] - signal_min,
                     den |-> signal_max - signal_min]
               ELSE [num |-> 0, den |-> 1]]]

\* One iteration of `for (start, end) in self.windows(signal, ...)` on the
\* loop state st = [signal, signal_dim, start, list_spectrogram,
\* list_labels, list_starts]: the window is tested on the array bound to
\* signal, its chunks are cut from index 0 of that array, and AudioDense
\* binds signal to the array of chunks.
WindowBody(fam, st, ws, factor, ov, label) ==
    LET end == st.start + ws
        sliced == SliceLength(st.signal, st.start, end)
        local_window == sliced \div factor
        signal_segments == AbsArray(SignalSegments(st.signal, sliced, local_window))
        resumed == [st EXCEPT !.start = @ + WindowStep(ws, ov)]
    IN  IF sliced = ws
           THEN [resumed EXCEPT
                    !.list_spectrogram = Append(@, Normalized(signal_segments)),
                    !.list_labels = Append(@, label),
                    !.list_starts = Append(@, st.start),
                    !.signal = IF fam = "MLP" THEN signal_segments ELSE @,
                    !.signal_dim = IF fam = "MLP" THEN 2 ELSE @]
           ELSE resumed

\* the loop to its end: windows() tests start < len(data) on the waveform
\* it was called with
RECURSIVE WindowLoop(_, _, _, _, _, _, _)
WindowLoop(fam, st, data, ws, factor, ov, label) ==
    IF st.start < Len(data)
       THEN WindowLoop(fam, WindowBody(fam, st, ws, factor, ov, label),
                       data, ws, factor, ov, label)
       ELSE st

\* the loop state before the first iteration on waveform data
LoopStart(data) ==
    [signal |-> data, signal_dim |-> 1, start |-> 0,
     list_spectrogram |-> <<>>, list_labels |-> <<>>, list_starts |-> <<>>]

\* self.window_size of the raw-segment loaders
SegWindowSize == seg_hop_length * seg_factor

\* a decoded file reaches the window loop, with a window step of at least 1
SegmentsInit ==
    /\ family \in SegmentFamilies
    /\ \E n \in 0..MaxSignal : waveform \in [1..n -> Amplitudes]
    /\ seg_label \in 0..1
    /\ seg_hop_length \in HopLengths
    /\ seg_factor \in WindowSizeFactors
    /\ seg_overlap \in {ov \in Overlaps :
                           WindowStep(seg_hop_length * seg_factor, ov) >= 1}
    /\ signal = waveform
    /\ signal_dim = 1
    /\ seg_start = 0
    /\ list_spectrogram = <<>>
    /\ list_labels = <<>>
    /\ list_starts = <<>>
    /\ spc = "loop"

\* one iteration of the window loop
SegmentsWindow ==
    /\ spc = "loop"
    /\ seg_start < Len(waveform)
    /\ LET st == [signal |-> signal, signal_dim |-> signal_dim,
                  start |-> seg_start, list_spectrogram |-> list_spectrogram,
                  list_labels |-> list_labels, list_starts |-> list_starts]
           nxt == WindowBody(family, st, SegWindowSize, seg_factor,
                             seg_overlap, seg_label)
       IN  /\ signal' = nxt.signal
           /\ signal_dim' = nxt.signal_dim
           /\ seg_start' = nxt.start
           /\ list_spectrogram' = nxt.list_spectrogram
           /\ list_labels' = nxt.list_labels
           /\ list_starts' = nxt.list_starts
    /\ UNCHANGED <<waveform, seg_label, seg_hop_length, seg_factor,
                   seg_overlap, spc>>
    /\ Frame("segments")

\* windows() is exhausted: the loop ends
SegmentsEnd ==
    /\ spc = "loop"
    /\ seg_start >= Len(waveform)
    /\ spc' = "done"
    /\ UNCHANGED <<waveform, seg_label, seg_hop_length, seg_factor,
                   seg_overlap, signal, signal_dim, seg_start,
                   list_spectrogram, list_labels, list_starts>>
    /\ Frame("segments")

NextSegments == SegmentsWindow \/ SegmentsEnd

InitSegments == SegmentsInit /\ IdleBut("segments")

SpecSegments == InitSegments /\ [][NextSegments]_vars

(***************************************************************************)
(* Claims about the raw-segment loaders.                                   *)
(***************************************************************************)
\* the starts of the full windows of the file: those windows() yields with
\* start + window_size <= len(waveform)
FullWindowStarts ==
    {st \in 0..Len(waveform) :
        /\ st % WindowStep(SegWindowSize, seg_overlap) = 0
        /\ st + SegWindowSize <= Len(waveform)}

\* the absolute values of the samples of the window at start st
WindowAbsValues(st) ==
    {AbsValue(waveform[j]) : j \in (st + 1)..(st + SegWindowSize)}

\* the all-zero tensor of window_size_factor rows of local_window values
ZeroTensor ==
    [j \in 1..seg_factor |-> [k \in 1..seg_hop_length |-> [num |-> 0, den |-> 1]]]

\* C13: in the raw-segment loaders, a window whose absolute values are all
\* equal produces an all-zero normalized tensor of the same shape and never
\* a division fault, and the window is still emitted with its label.
C13_ConstantWindowGivesZeros ==
    spc = "done" =>
        \A st \in FullWindowStarts :
            Cardinality(WindowAbsValues(st)) = 1 =>
                \E i \in 1..Len(list_starts) :
                    /\ list_starts[i] = st
                    /\ list_labels[i] = seg_label
                    /\ list_spectrogram[i] = ZeroTensor

(***************************************************************************)
(* train(): the metrics of the folds and the mean_metrics report           *)
(***************************************************************************)
\* the metric value 1.0 in units of the model: metrics are 0, 1/2 and 1
MetricOne == 2

\* the keys of the dictionary calculate_metrics returns, as train() reads
\* them
MetricNames == {"Accuracy", "Precision", "Recall", "F1-Score"}

\* the metrics of one fold in the model: Accuracy takes any value, each
\* other metric takes that value or its complement to 1
FoldMetricRecords ==
    {m \in [MetricNames -> 0..MetricOne] :
        \A name \in MetricNames :
            m[name] \in {m["Accuracy"], MetricOne - m["Accuracy"]}}

\* the keys of mean_metrics and the metric each is computed from
ReportKeys == {"Acc.", "Prec.", "Rec.", "F1."}

SourceOf(key) ==
    CASE key = "Acc." -> "Accuracy"
      [] key = "Prec." -> "Precision"
      [] key = "Rec." -> "Recall"
      [] key = "F1." -> "F1-Score"

\* [metric[name] for metric in metrics_list]
Column(list, name) == [i \in 1..Len(list) |-> list[i][name]]

RECURSIVE SeqSum(_)
SeqSum(xs) == IF xs = <<>> THEN 0 ELSE Head(xs) + SeqSum(Tail(xs))

\* numpy.mean(xs)
MeanOf(xs) == [num |-> SeqSum(xs), den |-> Len(xs) * MetricOne]

StdDivisorSample(k) == k - 1

\* numpy.std divides the sum of the squared deviations by len(xs): ddof = 0
StdDivisor(k) == k

\* numpy.std(xs), by its square: the deviations from the mean are
\* (k * x - sum) / (k * MetricOne)
StdOf(xs) ==
    LET k == Len(xs)
        deviations == [i \in 1..k |-> (k * xs[i] - SeqSum(xs)) * (k * xs[i] - SeqSum(xs))]
    IN  [sq_num |-> SeqSum(deviations),
         sq_den |-> k * k * MetricOne * MetricOne * StdDivisor(k)]

\* mean_metrics without its model_name entry
MeanMetrics(list) ==
    [key \in ReportKeys |->
        [value |-> MeanOf(Column(list, SourceOf(key))),
         std |-> StdOf(Column(list, SourceOf(key)))]]

\* the loop of a run of self.number_splits folds starts; the block is the
\* same text in the four classes
ReportInit ==
    /\ family = "AST"
    /\ report_splits \in 2..MaxSplits
    /\ fold_metrics = <<>>
    /\ mean_metrics = <<>>
    /\ rpc = "folds"

\* a fold completes: metrics_list.append(metrics)
ReportFold ==
    /\ rpc = "folds"
    /\ Len(fold_metrics) < report_splits
    /\ \E metrics \in FoldMetricRecords :
          fold_metrics' = Append(fold_metrics, metrics)
    /\ UNCHANGED <<report_splits, mean_metrics, rpc>>
    /\ Frame("report")

\* after the last fold: mean_metrics is built and train() returns
ReportAggregate ==
    /\ rpc = "folds"
    /\ Len(fold_metrics) = report_splits
    /\ mean_metrics' = MeanMetrics(fold_metrics)
    /\ rpc' = "returned"
    /\ UNCHANGED <<report_splits, fold_metrics>>
    /\ Frame("report")

NextReport == ReportFold \/ ReportAggregate

InitReport == ReportInit /\ IdleBut("report")

SpecReport == InitReport /\ [][NextReport]_vars

(***************************************************************************)
(* Claims about the report of train().                                     *)
(***************************************************************************)
\* the sum of the values of metric name over the folds, and the sum of the
\* squares of k * value - sum
FoldSum(name) == SeqSum(Column(fold_metrics, name))

FoldSquares(name) ==
    SeqSum([i \in 1..Len(fold_metrics) |->
              (Len(fold_metrics) * fold_metrics[i][name] - FoldSum(name))
              * (Len(fold_metrics) * fold_metrics[i][name] - FoldSum(name))])

\* the pairs of report key and metric that the claim names
KeyPairs ==
    {<<"Acc.", "Accuracy">>, <<"Prec.", "Precision">>, <<"Rec.", "Recall">>,
     <<"F1.", "F1-Score">>}

\* C14: whenever train() returns and every per-fold metric lies in [0,1],
\* mean_metrics holds the keys Acc., Prec., Rec., F1., each with value equal
\* to the mean of that metric over the folds and std equal to its
\* population standard deviation over the folds, both in [0,1].
C14_MeanAndPopulationStd ==
    rpc = "returned" =>
        /\ {pair[1] : pair \in KeyPairs} \subseteq DOMAIN mean_metrics
        /\ \A pair \in KeyPairs :
              LET k == Len(fold_metrics)
                  entry == mean_metrics[pair[1]]
              IN  /\ entry.value.den > 0
                  /\ entry.value.num * k * MetricOne
                        = FoldSum(pair[2]) * entry.value.den
                  /\ 0 <= entry.value.num /\ entry.value.num <= entry.value.den
                  /\ entry.std.sq_den > 0
                  /\ entry.std.sq_num * k * k * k * MetricOne * MetricOne
                        = FoldSquares(pair[2]) * entry.std.sq_den
                  /\ 0 <= entry.std.sq_num
                  /\ entry.std.sq_num <= entry.std.sq_den

\* C14 witness: three folds with accuracies 0, 1/2 and 1 and recalls
\* 1, 1/2 and 1: the reported accuracy is 1/2 with a variance of 1/6.
C14_Witness ==
    /\ rpc = "returned"
    /\ Column(fold_metrics, "Accuracy") = <<0, 1, 2>>
    /\ Column(fold_metrics, "Recall") = <<2, 1, 2>>
    /\ mean_metrics["Acc."].value = [num |-> 3, den |-> 6]
    /\ mean_metrics["Acc."].std.sq_num * 6 = mean_metrics["Acc."].std.sq_den

\* the tensor that the window at start st gives when its chunks are cut
\* from the window: row j holds the absolute values of the samples
\* st + (j - 1) * c + 1 .. st + j * c (counted from 1), c the chunk length,
\* normalized by the smallest and largest of the window
TensorOfWindow(st) ==
    LET lowest == CHOOSE m \in WindowAbsValues(st) :
                     \A x \in WindowAbsValues(st) : m <= x
        highest == CHOOSE m \in WindowAbsValues(st) :
                      \A x \in WindowAbsValues(st) : m >= x
    IN  [j \in 1..seg_factor |-> [k \in 1..seg_hop_length |->
            IF highest # lowest
               THEN [num |-> AbsValue(waveform[st + (j - 1) * seg_hop_length + k])
                             - lowest,
                     den |-> highest - lowest]
               ELSE [num |-> 0, den |-> 1]]]

\* C17: in the raw-segment loaders, the tensor emitted for the accepted
\* window [start, start + window_size) is built from the samples of that
\* window: with c = window_size // window_size_factor, chunk j holds the
\* absolute values of samples start + j*c .. start + (j+1)*c - 1.
C17_TensorBuiltFromItsWindow ==
    \A i \in 1..Len(list_starts) :
        list_spectrogram[i] = TensorOfWindow(list_starts[i])

\* the other raw-segment loader, and the lists its window loop builds on
\* the same waveform with the same settings
OtherSegmentFamily == IF family = "LSTM" THEN "MLP" ELSE "LSTM"

OtherLoop ==
    WindowLoop(OtherSegmentFamily, LoopStart(waveform), waveform,
               SegWindowSize, seg_factor, seg_overlap, seg_label)

\* C18: the raw-segment extractor is shared between the MLP and LSTM
\* families: on the same decodable files with the same window size,
\* window-size factor and overlap, AudioDense.load_data and
\* AudioLSTM.load_data return the same number of feature tensors with the
\* same values and the same labels in the same order.
C18_DenseAndLstmLoadersAgree ==
    spc = "done" =>
        /\ Len(list_spectrogram) = Len(OtherLoop.list_spectrogram)
        /\ list_spectrogram = OtherLoop.list_spectrogram
        /\ list_labels = OtherLoop.list_labels

(***************************************************************************)
(* train(): the confusion matrices of the folds and their rounded mean     *)
(***************************************************************************)
\* the rows and columns of a confusion matrix of two classes
ClassIndexes == {1, 2}

\* the confusion matrices of a fold in the model: counts of the three rows
\* of a validation subset over the four cells
ConfusionMatrices ==
    {m \in [ClassIndexes -> [ClassIndexes -> 0..3]] :
        m[1][1] + m[1][2] + m[2][1] + m[2][2] = 3}

\* the sum of cell (i, j) over the matrices of list
RECURSIVE CellSum(_, _, _)
CellSum(list, i, j) ==
    IF list = <<>> THEN 0 ELSE Head(list)[i][j] + CellSum(Tail(list), i, j)

TruncateOnly(num, den) == num \div den

\* numpy.round(num / den) for num >= 0, den > 0: to the nearest whole
\* number, a half to the even neighbour
NumpyRound(num, den) ==
    LET q == num \div den
        r == num % den
    IN  IF 2 * r < den THEN q
        ELSE IF 2 * r > den THEN q + 1
        ELSE IF q % 2 = 0 THEN q ELSE q + 1

\* numpy.round(numpy.mean(numpy.array(list), axis=0)).astype(numpy.int32)
MeanConfusionMatrix(list) ==
    [i \in ClassIndexes |->
        [j \in ClassIndexes |-> NumpyRound(CellSum(list, i, j), Len(list))]]

\* the loop of a run of self.number_splits folds starts
ConfusionInit ==
    /\ family = "AST"
    /\ confusion_splits \in 2..MaxSplits
    /\ confusion_matriz_list = <<>>
    /\ mean_confusion_matrix = <<>>
    /\ xpc = "folds"

\* a fold completes: confusion_matriz_list.append(confusion_matrix)
ConfusionFold ==
    /\ xpc = "folds"
    /\ Len(confusion_matriz_list) < confusion_splits
    /\ \E confusion_matrix \in ConfusionMatrices :
          confusion_matriz_list' = Append(confusion_matriz_list, confusion_matrix)
    /\ UNCHANGED <<confusion_splits, mean_confusion_matrix, xpc>>
    /\ Frame("confusion")

\* after the last fold: the mean matrix is built and train() returns
ConfusionAggregate ==
    /\ xpc = "folds"
    /\ Len(confusion_matriz_list) = confusion_splits
    /\ mean_confusion_matrix' = MeanConfusionMatrix(confusion_matriz_list)
    /\ xpc' = "returned"
    /\ UNCHANGED <<confusion_splits, confusion_matriz_list>>
    /\ Frame("confusion")

NextConfusion == ConfusionFold \/ ConfusionAggregate

InitConfusion == ConfusionInit /\ IdleBut("confusion")

SpecConfusion == InitConfusion /\ [][NextConfusion]_vars

(***************************************************************************)
(* Claims about the mean confusion matrix.                                 *)
(***************************************************************************)
\* the sum of cell (i, j) over the folds' matrices
FoldCellSum(i, j) ==
    LET k == Len(confusion_matriz_list)
        cells == [f \in 1..k |-> confusion_matriz_list[f][i][j]]
    IN  SeqSum(cells)

\* C24: every entry of the reported mean confusion matrix is an integer
\* whose distance from the exact mean of that entry over the folds'
\* confusion matrices is at most 1/2 (the fold average rounded to the
\* nearest integer).
C24_MeanConfusionRoundedToNearest ==
    xpc = "returned" =>
        LET k == Len(confusion_matriz_list)
        IN  \A i \in ClassIndexes, j \in ClassIndexes :
               LET entry == mean_confusion_matrix[i][j]
               IN  /\ entry \in Nat
                   /\ 2 * (k * entry - FoldCellSum(i, j)) <= k
                   /\ 2 * (FoldCellSum(i, j) - k * entry) <= k

\* C24 witness: over two folds one cell sums to 3 (mean 1.5, reported 2)
\* and another to 1 (mean 0.5, reported 0).
C24_Witness ==
    /\ xpc = "returned"
    /\ Len(confusion_matriz_list) = 2
    /\ FoldCellSum(1, 1) = 3 /\ mean_confusion_matrix[1][1] = 2
    /\ FoldCellSum(2, 2) = 1 /\ mean_confusion_matrix[2][2] = 0

(***************************************************************************)
(* ResidualModel.load_data: the feature array built after the file loop    *)
(***************************************************************************)
\* the values of self.number_filters_spectrogram, self.window_size_factor
\* and self.hop_length of the model, the numbers of accepted windows, and
\* the values of a cell of a rescaled spectrogram
ResidualFilters == {1, 2}
ResidualFactors == {2, 3}
ResidualHopLengths == {1, 2}
WindowCounts == {0, 1, 2}
RescaledValues == {0, 1}

\* the frames of librosa.feature.melspectrogram (center=True) on a segment
\* of len samples
Frames(len, hop) == 1 + len \div hop

\* the rescaled spectrograms of a window of an instance: n_mels rows, one
\* column per frame of the window_size = hop * (factor - 1) samples
RescaledSpectrograms(filters, factor, hop) ==
    {[h |-> filters, w |-> Frames(hop * (factor - 1), hop), cells |-> cells] :
        cells \in [1..filters ->
                     [1..Frames(hop * (factor - 1), hop) -> RescaledValues]]}

\* the elements of a 2-D array in numpy's (row-major) order
RowMajor(array) ==
    [k \in 1..(array.h * array.w) |->
        array.cells[((k - 1) \div array.w) + 1][((k - 1) % array.w) + 1]]

\* the elements of the arrays of list, one array after another
RECURSIVE Elements(_)
Elements(list) ==
    IF list = <<>> THEN <<>> ELSE RowMajor(Head(list)) \o Elements(Tail(list))

\* numpy.array(list).reshape(n, a, b, 1): the same elements in the same
\* order under the new shape; undefined unless the sizes agree
Reshape(list, n, a, b) ==
    LET flat == Elements(list)
    IN  [shape |-> <<n, a, b, 1>>,
         cells |-> [t \in 1..n |-> [i \in 1..a |-> [j \in 1..b |->
                       <<flat[(t - 1) * a * b + (i - 1) * b + j]>>]]]]

NewShapeKept(shape) == shape

\* new_shape = list(array_features.shape); new_shape[1] += 1
NewShape(shape) == [shape EXCEPT ![2] = @ + 1]

\* new_array = numpy.zeros(new_shape);
\* new_array[:, :filters, :, :] = array_features
ZeroExtended(array, filters) ==
    LET new_shape == NewShape(array.shape)
    IN  [shape |-> new_shape,
         cells |-> [t \in 1..new_shape[1] |-> [i \in 1..new_shape[2] |->
                      [j \in 1..new_shape[3] |->
                          IF i <= filters /\ i <= array.shape[2]
                             THEN array.cells[t][i][j] ELSE <<0>>]]]]

\* the file loop has ended with the spectrograms of the accepted windows
ResidualInit ==
    /\ family = "Residual"
    /\ res_filters \in ResidualFilters
    /\ res_factor \in ResidualFactors
    /\ res_hop_length \in ResidualHopLengths
    /\ \E n \in WindowCounts :
          res_list_spectrogram \in
              [1..n -> RescaledSpectrograms(res_filters, res_factor,
                                            res_hop_length)]
    /\ new_array = <<>>
    /\ zpc = "arrays"

\* the lines after the loop: reshape, zero-extend, return
ResidualArrays ==
    /\ zpc = "arrays"
    /\ LET reshaped == Reshape(res_list_spectrogram,
                               Len(res_list_spectrogram),
                               res_filters, res_factor)
       IN  new_array' = ZeroExtended(reshaped, res_filters)
    /\ zpc' = "returned"
    /\ UNCHANGED <<res_filters, res_factor, res_hop_length, res_list_spectrogram>>
    /\ Frame("residual")

NextResidual == ResidualArrays

InitResidual == ResidualInit /\ IdleBut("residual")

SpecResidual == InitResidual /\ [][NextResidual]_vars

(***************************************************************************)
(* Claims about the feature array of ResidualModel.load_data.              *)
(***************************************************************************)
\* C25: ResidualModel.load_data: every returned feature tensor has shape
\* (number_filters_spectrogram + 1, window_size_factor, 1); its rows
\* 0 .. number_filters_spectrogram - 1 equal the rescaled spectrogram of its
\* window and the extra last row is all zeros.
C25_TensorIsSpectrogramPlusZeroRow ==
    zpc = "returned" =>
        /\ new_array.shape = <<Len(res_list_spectrogram), res_filters + 1,
                               res_factor, 1>>
        /\ Len(new_array.cells) = Len(res_list_spectrogram)
        /\ \A t \in 1..Len(new_array.cells) :
              /\ Len(new_array.cells[t]) = res_filters + 1
              /\ \A i \in 1..(res_filters + 1) :
                    /\ Len(new_array.cells[t][i]) = res_factor
                    /\ \A j \in 1..res_factor :
                          /\ Len(new_array.cells[t][i][j]) = 1
                          /\ new_array.cells[t][i][j][1] =
                                (IF i <= res_filters
                                    THEN res_list_spectrogram[t].cells[i][j]
                                    ELSE 0)

\* C25 witness: two windows of two filters and three frames, the second
\* without a zero cell, were returned as two tensors of shape (3, 3, 1)
\* whose last row is zero.
C25_Witness ==
    /\ zpc = "returned"
    /\ res_filters = 2 /\ res_factor = 3
    /\ Len(res_list_spectrogram) = 2
    /\ \A i \in 1..2, j \in 1..3 : res_list_spectrogram[2].cells[i][j] = 1
    /\ new_array.shape = <<2, 3, 3, 1>>
    /\ \A j \in 1..3 : new_array.cells[2][3][j] = <<0>>
    /\ new_array.cells[2][2][3] = <<1>>

(***************************************************************************)
(* train() of AudioLSTM, AudioDense and ResidualModel: the shape of the    *)
(* loaded tensors and the input shape of the model of each fold            *)
(***************************************************************************)
ShapeFamilies == {"LSTM", "MLP", "Residual"}

\* the shape of one tensor that the loader of class fam returns on an
\* instance with the attributes self: the chunks of a window with a
\* trailing axis, or the spectrogram with one more row and a trailing axis
FeatureShape(fam, self) ==
    IF fam = "Residual"
       THEN Tail(NewShape(<<1, self.number_filters_spectrogram,
                            self.window_size_factor, 1>>))
       ELSE LET ws == WindowSizeOf(fam, self.hop_length, self.window_size_factor)
                local_window == ws \div self.window_size_factor
            IN  <<CeilDiv(ws, local_window), local_window, 1>>

\* the instances of the model: the three hyperparameters, and an
\* input_dimension that fits them, as the defaults of the classes do
\* ((40, 256) for hop_length 256 and window_size_factor 40, (513, 40, 1) for
\* 512 filters and window_size_factor 40)
Constructed(fam) ==
    {[hop_length |-> hop, window_size_factor |-> factor,
      number_filters_spectrogram |-> filters,
      input_dimension |->
          IF fam = "Residual" THEN <<filters + 1, factor, 1>>
          ELSE <<factor, hop>>] :
        hop \in ResidualHopLengths, factor \in ResidualFactors,
        filters \in ResidualFilters}

\* the options objects of a call; AudioDense.train takes none
ShapeOptions(fam) ==
    IF fam = "MLP" THEN {<<>>}
    ELSE [hop_length : ResidualHopLengths, window_size_factor : ResidualFactors,
          number_filters_spectrogram : ResidualFilters]

\* the shape attributes after the configuration block of train(): the
\* options overwrite hop_length and window_size_factor (and the filter
\* count in ResidualModel); no line of train() assigns input_dimension
ConfigureShapes(fam, self, opts) ==
    CASE fam = "MLP" -> self
      [] fam = "LSTM" ->
            [self EXCEPT !.hop_length = opts.hop_length,
                         !.window_size_factor = opts.window_size_factor]
      [] fam = "Residual" ->
            [self EXCEPT !.hop_length = opts.hop_length,
                         !.window_size_factor = opts.window_size_factor,
                         !.number_filters_spectrogram =
                             opts.number_filters_spectrogram]

\* inputs = Input(shape=self.input_dimension) (self.input_shape in
\* ResidualModel)
InputShape(fam, self) == self.input_dimension

ShapesInit ==
    /\ family \in ShapeFamilies
    /\ shape_attrs \in Constructed(family)
    /\ shape_options \in ShapeOptions(family)
    /\ feature_shape = <<>>
    /\ built_shapes = <<>>
    /\ hpc = "constructed"

\* the configuration block of train()
ShapesConfigure ==
    /\ hpc = "constructed"
    /\ shape_attrs' = ConfigureShapes(family, shape_attrs, shape_options)
    /\ hpc' = "configured"
    /\ UNCHANGED <<shape_options, feature_shape, built_shapes>>
    /\ Frame("shapes")

\* features, labels = self.load_data(dataset_directory)
ShapesLoad ==
    /\ hpc = "configured"
    /\ feature_shape' = FeatureShape(family, shape_attrs)
    /\ hpc' = "loaded"
    /\ UNCHANGED <<shape_attrs, shape_options, built_shapes>>
    /\ Frame("shapes")

\* self.build_model() of one fold
ShapesBuild ==
    /\ hpc = "loaded"
    /\ Len(built_shapes) < MaxSplits
    /\ built_shapes' = Append(built_shapes, InputShape(family, shape_attrs))
    /\ UNCHANGED <<shape_attrs, shape_options, feature_shape, hpc>>
    /\ Frame("shapes")

NextShapes == ShapesConfigure \/ ShapesLoad \/ ShapesBuild

InitShapes == ShapesInit /\ IdleBut("shapes")

SpecShapes == InitShapes /\ [][NextShapes]_vars

(***************************************************************************)
(* Claims about the shapes of a run.                                       *)
(***************************************************************************)
\* shape a is shape b with one more, trailing axis of length 1
AddsUnitAxis(a, b) ==
    /\ Len(a) = Len(b) + 1
    /\ a[Len(a)] = 1
    /\ SubSeq(a, 1, Len(b)) = b

\* the two shapes are equal, or differ by the trailing axis of length 1
\* that Keras adds or drops when it fits an array to an input
SameShape(a, b) == a = b \/ AddsUnitAxis(a, b) \/ AddsUnitAxis(b, a)

\* C26: for the recurrent, dense and residual families, the input shape of
\* the model built in each fold equals the shape of one feature tensor
\* returned by that family's loader, for every option configuration (hop
\* length, window-size factor, mel-filter count) that train() applies
\* before loading.
C26_BuiltInputShapeMatchesFeatures ==
    \A i \in 1..Len(built_shapes) : SameShape(built_shapes[i], feature_shape)

=============================================================================
